---- MODULE Spec2Model ----
(***************************************************************************)
(* A model of ConsoleProcess (src/cpp/session/SessionConsoleProcess.cpp):  *)
(* the input sequencer (enqueInput / dequeInput / processQueuedInput), the *)
(* start() life cycle and the prompt classifier (maybeConsolePrompt /      *)
(* handleConsolePrompt / enqueOutputEvent).                                *)
(*                                                                         *)
(* Each group of operations has its own specification over the same        *)
(* variables: SpecP1 and SpecSeq drive the sequencer, SpecStart the life   *)
(* cycle, SpecPrompt the classifier.  Variables a specification does not   *)
(* touch keep their constructor values.                                    *)
(***************************************************************************)
EXTENDS Integers, Sequences, FiniteSets, TLC

VARIABLES
    inputQueue_,         \* std::deque<Input> inputQueue_
    lastInputSequence_,  \* int lastInputSequence_
    pendingCommand_,     \* bool pendingCommand_
    lastEnterTime_,      \* ptime lastEnterTime_
    stdinLog,            \* what processQueuedInput gave to ops.writeToStdin and
                         \* ops.ptyInterrupt, in order
    commandAt,           \* when the latest text ending in Enter was written to
                         \* stdin (NotADateTime before the first one)
    clock,               \* now(), in milliseconds
    nItems,              \* SpecP1: N, the number of items the client submits
    arrived,             \* sequence numbers the client has submitted so far
    barrier,             \* submitted numbers of the queue, head first, as the latest
                         \* FlushBarrier was enqueued (<<>> once processed)
    autoFlushed,         \* dequeInput has degraded (lines 379-393) at least once
    lastDrain            \* the latest operation, when it was processQueuedInput:
                         \* the queue before the call and the inputs it dequeued

seqVars == <<inputQueue_, lastInputSequence_, pendingCommand_, lastEnterTime_,
             stdinLog, commandAt, clock, nItems, arrived, barrier, autoFlushed, lastDrain>>

VARIABLES
    mode,                \* which of command_ / program_ is set: the launch call used
    started_,            \* bool started_
    zombie,              \* procInfo_->getZombie()
    running,             \* the supervisor holds a live process of this session
    exitCode,            \* procInfo_->getExitCode(): NoExitCode or <<code>>
    hasChildProcs,       \* procInfo_->getHasChildProcs()
    launches,            \* the supervisor's launch calls so far: [fn, error]
    startLog,            \* the start() calls so far: state before, return value
    exitEvents,          \* kConsoleProcessExit events enqueued to the client
    onExitCalls          \* exit codes handed to the completion callback onExit_

lifeVars == <<mode, started_, zombie, running, exitCode, hasChildProcs, launches,
              startLog, exitEvents, onExitCalls>>

VARIABLES
    chunk,               \* SpecPrompt: the bytes the next onStdout call delivers
    smartTerminal,       \* options_.smartTerminal
    channelMode,         \* procInfo_->getChannelMode(): "Rpc" or "Websocket"
    onPrompt_,           \* the custom prompt handler: whether set, and its answer
    privateCommandLoop_, \* bool privateCommandLoop_
    outputBuffer,        \* texts given to procInfo_->appendToOutputBuffer by
                         \* enqueOutputEvent, in order
    sent,                \* output delivered: socket texts and client output events
    classified,          \* the latest maybeConsolePrompt call: candidate, flushes
    handlerCalls,        \* prompts handed to onPrompt_
    promptEvents,        \* kConsoleProcessPrompt events enqueued to the client
    terminateCalls,      \* number of ops.terminate() calls
    stdoutCalls          \* number of onStdout calls

promptVars == <<chunk, smartTerminal, channelMode, onPrompt_, privateCommandLoop_,
                outputBuffer, sent, classified, handlerCalls, promptEvents,
                terminateCalls, stdoutCalls>>

VARIABLES
    trackEnv,            \* procInfo_->getTrackEnv()
    interrupt_,          \* bool interrupt_
    interruptChild_,     \* bool interruptChild_
    newSize,             \* newCols_, newRows_: NoSize (-1, -1) or <<cols, rows>>
    lastPrivateCommand_, \* ptime lastPrivateCommand_
    haveProcOps_,        \* bool haveProcOps_
    pOps_,               \* weak_ptr<ProcessOperations> pOps_: was it assigned
    childProcsSent_,     \* bool childProcsSent_
    cwd,                 \* procInfo_->getCwd()
    tickPc,              \* where the polling driver is inside onContinue; at
                         \* line 475 also currentTime (line 434) and the
                         \* number of stdin writes made before the tick
    pushPc,              \* where a push-channel thread is inside onReceivedInput
    lastTick,            \* the latest tick: return value, the ops calls it made
                         \* and whether one of them returned an error
    sampleLog,           \* the sample injections so far: time, write error,
                         \* stdin writes seen when it was decided, output
                         \* events seen and privateCommandLoop_ at the write
    subprocEvents,       \* kTerminalSubprocs events enqueued to the client
    cwdEvents,           \* kTerminalCwd events enqueued to the client
    lastNotify,          \* SpecNotify: the latest onHasSubprocs or reportCwd
                         \* call, with the state it found
    created,             \* a ConsoleProcess with this handle is in the table
    listening,           \* s_terminalSocket holds a listener for the handle
    lastCreate,          \* the latest createTerminalProcess call
    inputQueueMutex_,    \* boost::mutex inputQueueMutex_: "free" or its owner
    procOpsMutex_,       \* boost::mutex procOpsMutex_: "free" or its owner
    ctx                  \* SpecLocks: per execution context, where it is in
                         \* its callback, where processQueuedInput or
                         \* enqueInput returns to, the input in hand and
                         \* currentTime of the tick (line 434)

runVars == <<trackEnv, interrupt_, interruptChild_, newSize, lastPrivateCommand_,
             haveProcOps_, pOps_, childProcsSent_, cwd, tickPc, pushPc,
             lastTick, sampleLog, subprocEvents, cwdEvents, lastNotify, created,
             listening, lastCreate, inputQueueMutex_, procOpsMutex_, ctx>>

chanVars == <<created, listening, lastCreate>>

lockVars == <<inputQueueMutex_, procOpsMutex_, ctx>>

vars == <<seqVars, lifeVars, promptVars, runVars>>

----------------------------------------------------------------------------
(* Bounds of the model.                                                    *)

\* kAutoFlushLength is declared in SessionConsoleProcess.hpp, which is not
\* part of the sources at hand; the design document gives "default ~40".
\* dequeInput reads it only in the comparison size() >= kAutoFlushLength,
\* so the sequencer is checked with the threshold scaled down to AutoFlushBound.
AutoFlushBound == 3

\* ordered sequence numbers a client submits: 1..MaxSeq
MaxSeq == AutoFlushBound + 1

\* start() calls per session in SpecStart
MaxStartCalls == 3

\* longest stdout chunk of SpecPrompt, in characters
MaxChunkLen == 3

\* procInfo_->getMaxOutputLines(), the configured number of visible lines
MaxOutputLines == 1

----------------------------------------------------------------------------
(* Declarations of SessionConsoleProcess.hpp (not among the sources):      *)
(* modelled from the design document.                                      *)

\* "Unordered" sentinel.  A fresh session expects kIgnoreSequence + 1 first
\* (constructor, line 129; dequeInput, line 369) and the design document
\* numbers the first ordered item 1.
kIgnoreSequence == 0

\* "FlushBarrier" sentinel
kFlushSequence == -1

kAutoFlushLength == AutoFlushBound

\* boost::posix_time::ptime: a time in milliseconds or a special value
PTime(t) == [special |-> "none", ms |-> t]

NotADateTime == [special |-> "not_a_date_time", ms |-> 0]

PosInfin == [special |-> "pos_infin", ms |-> 0]

IsNotADateTime(p) == p.special = "not_a_date_time"

\* a <= b for two ptimes that are not not_a_date_time
TimeLeq(a, b) ==
    IF b.special = "pos_infin" THEN TRUE
    ELSE IF a.special = "pos_infin" THEN FALSE
    ELSE a.ms <= b.ms

\* p - d for a duration of d milliseconds
TimeMinus(p, d) == IF p.special = "none" THEN PTime(p.ms - d) ELSE p

\* characters of input and output text
CR == "CR"
BS == "BS"
LF == "LF"
FF == "FF"
SP == "SP"

\* Input(sequence, text, echoInput); orig is a history field (the sequence
\* number the item was submitted with), never read by the operations.
Input(seq, text, echo) ==
    [interrupt |-> FALSE, text |-> text, echoInput |-> echo,
     sequence |-> seq, orig |-> seq]

\* Input carrying the interrupt marker
InterruptInput(seq) ==
    [interrupt |-> TRUE, text |-> <<>>, echoInput |-> FALSE,
     sequence |-> seq, orig |-> seq]

\* Input(): the empty result of dequeInput
EmptyInput ==
    [interrupt |-> FALSE, text |-> <<>>, echoInput |-> FALSE,
     sequence |-> kIgnoreSequence, orig |-> kIgnoreSequence]

\* Input::empty()
IsEmpty(input) == ~input.interrupt /\ input.text = <<>>

----------------------------------------------------------------------------
(* Input sequencer: enqueInput, lines 310-348                              *)

Min(S) == CHOOSE x \in S : \A y \in S : x <= y

\* lines 326-330 and 383-388: every queued item's sequence becomes "ignore"
SetAllIgnore(q) ==
    [i \in 1..Len(q) |-> [q[i] EXCEPT !.sequence = kIgnoreSequence]]

\* mutant: the ordered insert degenerates to push_front
InsertBySequence_PushFront(q, input) == <<input>> \o q

\* mutant: the ordered insert degenerates to push_back
InsertBySequence_PushBack(q, input) == Append(q, input)

\* lines 335-345: insert before the first queued item with a larger sequence
InsertBySequence(q, input) ==
    LET later == {i \in 1..Len(q) : input.sequence < q[i].sequence}
    IN  IF later = {}
        THEN Append(q, input)
        ELSE SubSeq(q, 1, Min(later) - 1) \o <<input>>
                 \o SubSeq(q, Min(later), Len(q))

\* mutant: the FlushBarrier branch without the rewrite loop of lines 326-330
enqueInput_NoRewrite(q, last, input) ==
    IF input.sequence = kIgnoreSequence
    THEN [queue |-> Append(q, input), last |-> last]
    ELSE IF input.sequence = kFlushSequence
    THEN [queue |-> Append(q, input), last |-> kIgnoreSequence]
    ELSE [queue |-> InsertBySequence(q, input), last |-> last]

\* enqueInput: the queue and lastInputSequence_ after the call
enqueInput(q, last, input) ==
    IF input.sequence = kIgnoreSequence
    THEN [queue |-> Append(q, input), last |-> last]
    ELSE IF input.sequence = kFlushSequence
    THEN [queue |-> SetAllIgnore(Append(q, input)), last |-> kIgnoreSequence]
    ELSE [queue |-> InsertBySequence(q, input), last |-> last]

\* mutant: the head is returned without the sequence test of line 369
dequeInput_NoGapCheck(q, last) ==
    IF q = <<>>
    THEN [queue |-> q, last |-> last, input |-> EmptyInput]
    ELSE IF Head(q).sequence = kIgnoreSequence \/ Head(q).sequence = kFlushSequence
    THEN [queue |-> Tail(q), last |-> last, input |-> Head(q)]
    ELSE [queue |-> Tail(q), last |-> Head(q).sequence, input |-> Head(q)]

\* mutant: line 379 written with > instead of >=
dequeInput_StrictThreshold(q, last) ==
    IF q = <<>>
    THEN [queue |-> q, last |-> last, input |-> EmptyInput]
    ELSE IF Head(q).sequence = kIgnoreSequence \/ Head(q).sequence = kFlushSequence
    THEN [queue |-> Tail(q), last |-> last, input |-> Head(q)]
    ELSE IF Head(q).sequence = last + 1
    THEN [queue |-> Tail(q), last |-> last + 1, input |-> Head(q)]
    ELSE IF Len(q) > kAutoFlushLength
    THEN [queue |-> Tail(SetAllIgnore(q)),
          last  |-> q[Len(q)].sequence,
          input |-> [Head(q) EXCEPT !.sequence = kIgnoreSequence]]
    ELSE [queue |-> q, last |-> last, input |-> EmptyInput]

\* mutant: without the sentinel test of line 363
dequeInput_NoSentinelTest(q, last) ==
    IF q = <<>>
    THEN [queue |-> q, last |-> last, input |-> EmptyInput]
    ELSE IF Head(q).sequence = last + 1
    THEN [queue |-> Tail(q), last |-> last + 1, input |-> Head(q)]
    ELSE IF Len(q) >= kAutoFlushLength
    THEN [queue |-> Tail(SetAllIgnore(q)),
          last  |-> q[Len(q)].sequence,
          input |-> [Head(q) EXCEPT !.sequence = kIgnoreSequence]]
    ELSE [queue |-> q, last |-> last, input |-> EmptyInput]

(* dequeInput, lines 353-396: the queue, lastInputSequence_ and the result *)
dequeInput(q, last) ==
    IF q = <<>>
    THEN [queue |-> q, last |-> last, input |-> EmptyInput]
    ELSE IF Head(q).sequence = kIgnoreSequence \/ Head(q).sequence = kFlushSequence
    THEN [queue |-> Tail(q), last |-> last, input |-> Head(q)]
    ELSE IF Head(q).sequence = last + 1
    THEN [queue |-> Tail(q), last |-> last + 1, input |-> Head(q)]
    ELSE IF Len(q) >= kAutoFlushLength
    THEN [queue |-> Tail(SetAllIgnore(q)),
          last  |-> q[Len(q)].sequence,
          input |-> [Head(q) EXCEPT !.sequence = kIgnoreSequence]]
    ELSE [queue |-> q, last |-> last, input |-> EmptyInput]

(* processQueuedInput, lines 548-603 (POSIX build: the _WIN32 line-ending  *)
(* conversion of lines 580-585 is compiled out).  st holds the members the *)
(* loop reads and writes, out the inputs dequeued by this call; t is now().*)
(* A failed write or interrupt is only logged (lines 561-563, 586-588).    *)
EndsWithCR(text) == text # <<>> /\ text[Len(text)] = CR

applyInput(st, input, t) ==
    IF input.interrupt
    THEN [st EXCEPT !.pending = TRUE,
                    !.log = Append(@, [kind |-> "ptyInterrupt", text |-> <<>>,
                                       orig |-> input.orig]),
                    !.out = Append(@, input)]
    ELSE [st EXCEPT !.pending = ~EndsWithCR(input.text),
                    !.enter = IF EndsWithCR(input.text) THEN t ELSE @,
                    !.log = Append(@, [kind |-> "writeToStdin", text |-> input.text,
                                       orig |-> input.orig]),
                    !.out = Append(@, input)]

RECURSIVE processLoop(_, _)
processLoop(st, t) ==
    LET d == dequeInput(st.queue, st.last)
        popped == [st EXCEPT !.queue = d.queue, !.last = d.last]
        \* history: the result's sequence differs from the head's only when
        \* line 390 rewrote it
        seen == [popped EXCEPT !.degraded =
                    @ \/ d.input.sequence # Head(st.queue).sequence]
    IN  IF IsEmpty(d.input)
        THEN popped
        ELSE processLoop(applyInput(seen, d.input, t), t)

processQueuedInput(q, last, pending, enter, log, t) ==
    processLoop([queue |-> q, last |-> last, pending |-> pending,
                 enter |-> enter, log |-> log, out |-> <<>>,
                 degraded |-> FALSE], t)

----------------------------------------------------------------------------
(* Construction                                                            *)

Origs(q) == [i \in 1..Len(q) |-> q[i].orig]

NoDrain ==
    [called |-> FALSE, pre |-> <<>>, preLast |-> kIgnoreSequence, out |-> <<>>,
     barrier |-> <<>>]

\* the constructors, lines 126-170
SeqInit ==
    /\ inputQueue_ = <<>>
    /\ lastInputSequence_ = kIgnoreSequence
    /\ pendingCommand_ = TRUE
    /\ lastEnterTime_ = NotADateTime
    /\ stdinLog = <<>>
    /\ commandAt = NotADateTime
    /\ clock = 0
    /\ arrived = {}
    /\ barrier = <<>>
    /\ autoFlushed = FALSE
    /\ lastDrain = NoDrain

NoClassify == [called |-> FALSE, candidate |-> <<>>, flushes |-> 0]

NoHandler == [set |-> FALSE, handled |-> FALSE, input |-> EmptyInput]

\* the constructors, lines 126-170: output side
PromptInit ==
    /\ privateCommandLoop_ = FALSE
    /\ outputBuffer = <<>>
    /\ sent = <<>>
    /\ classified = NoClassify
    /\ handlerCalls = <<>>
    /\ promptEvents = <<>>
    /\ terminateCalls = 0
    /\ stdoutCalls = 0

\* a terminal session on the poll channel that receives no output
PromptIdle ==
    /\ PromptInit
    /\ chunk = <<>>
    /\ smartTerminal = TRUE
    /\ channelMode = "Rpc"
    /\ onPrompt_ = NoHandler

\* newCols_ = -1, newRows_ = -1: no resize requested
NoSize == <<>>

\* no tick yet.  ret is what the latest onContinue returned, calls the ops
\* calls it made, failed whether one of them returned an Error; stopAsked
\* and childAsked are interrupt_ and interruptChild_ as the tick found them,
\* persisted the geometry the tick wrote to the session record
NoTick ==
    [ret |-> "none", calls |-> <<>>, failed |-> FALSE, stopAsked |-> FALSE,
     childAsked |-> FALSE, persisted |-> <<>>]

Idle == [at |-> "idle"]

\* no onReceivedInput call under way; n counts the calls made so far and
\* wrote the inputs that line 1009 took off the queue
NoPush == [at |-> "idle", n |-> 0, wrote |-> 0]

NoCreate ==
    [n |-> 0, enableWebsockets |-> FALSE, serverError |-> FALSE,
     reattached |-> FALSE, sameRecord |-> FALSE, listened |-> FALSE]

NoNotify ==
    [op |-> "none", arg |-> FALSE, storedBefore |-> FALSE, sentBefore |-> FALSE,
     emitted |-> FALSE]

\* the execution contexts: the polling driver's thread, which runs onContinue
\* and onStdout, and the push channel's threads, which run onReceivedInput
PushThreads == {"push1", "push2"}

Contexts == {"driver"} \cup PushThreads

IdleCtx == [pc |-> "idle", ret |-> "idle", cur |-> EmptyInput, t |-> NotADateTime]

\* the constructors, lines 126-170: tick loop and notifications
RunInit ==
    /\ interrupt_ = FALSE
    /\ interruptChild_ = FALSE
    /\ newSize = NoSize
    /\ lastPrivateCommand_ = NotADateTime
    /\ haveProcOps_ = FALSE
    /\ pOps_ = "unset"
    /\ childProcsSent_ = FALSE
    /\ tickPc = Idle
    /\ pushPc = NoPush
    /\ lastTick = NoTick
    /\ sampleLog = <<>>
    /\ subprocEvents = <<>>
    /\ cwdEvents = <<>>
    /\ lastNotify = NoNotify
    /\ inputQueueMutex_ = "free"
    /\ procOpsMutex_ = "free"
    /\ ctx = [c \in Contexts |-> IdleCtx]

\* a session in the table that is never ticked and has no push listener
RunIdle ==
    /\ RunInit
    /\ trackEnv = FALSE
    /\ cwd = "home"
    /\ created = TRUE
    /\ listening = FALSE
    /\ lastCreate = NoCreate

----------------------------------------------------------------------------
(* Life cycle: start, lines 284-308; onExit, lines 741-755; setZombie,     *)
(* lines 808-813                                                           *)

Success == "Success"

\* what the process supervisor's launch call can return
LaunchResults == {Success, "LaunchError1", "LaunchError2"}

ExitCodes == {0, 7}

NoExitCode == <<>>

Modes == {"command", "program", "terminal"}

\* lines 290-304: the supervisor call start() makes
LaunchFn(m) ==
    IF m = "command" THEN "runCommand"
    ELSE IF m = "program" THEN "runProgram"
    ELSE "runTerminal"

\* mutant: start() without the early return of lines 286-287
start_NoGuard(isStarted, isZombie, launchResult) ==
    [launched |-> TRUE, started |-> (launchResult = Success) \/ isStarted,
     ret |-> launchResult]

\* mutant: started_ is set whatever the launch returned
start_AlwaysStarted(isStarted, isZombie, launchResult) ==
    IF isStarted \/ isZombie
    THEN [launched |-> FALSE, started |-> isStarted, ret |-> Success]
    ELSE [launched |-> TRUE, started |-> TRUE, ret |-> launchResult]

\* start(): whether the supervisor is called, started_ afterwards and the
\* Error returned; launchResult is what the supervisor returns if called
start(isStarted, isZombie, launchResult) ==
    IF isStarted \/ isZombie
    THEN [launched |-> FALSE, started |-> isStarted, ret |-> Success]
    ELSE [launched |-> TRUE, started |-> (launchResult = Success),
          ret |-> launchResult]

\* the constructors, lines 126-170; the ConsoleProcessInfo is the caller's
LifeInit ==
    /\ started_ = FALSE
    /\ zombie = FALSE
    /\ running = FALSE
    /\ exitCode = NoExitCode
    /\ launches = <<>>
    /\ startLog = <<>>
    /\ exitEvents = <<>>
    /\ onExitCalls = <<>>

Start ==
    /\ Len(startLog) < MaxStartCalls
    /\ \E launchResult \in LaunchResults :
        LET r == start(started_, zombie, launchResult)
        IN  /\ started_' = r.started
            /\ launches' = IF r.launched
                            THEN Append(launches, [fn |-> LaunchFn(mode),
                                                   error |-> launchResult])
                            ELSE launches
            /\ running' = (running \/ (r.launched /\ launchResult = Success))
            /\ startLog' = Append(startLog,
                    [startedBefore |-> started_, zombieBefore |-> zombie,
                     launched |-> r.launched, ret |-> r.ret,
                     nLaunches |-> Len(launches')])
    /\ UNCHANGED <<mode, zombie, exitCode, hasChildProcs, exitEvents, onExitCalls>>
    /\ UNCHANGED <<seqVars, promptVars, runVars>>

\* mutant: onExit without the call of the completion callback onExit_
OnExit_NoCallback ==
    /\ running
    /\ \E code \in ExitCodes :
        /\ exitCode' = <<code>>
        /\ exitEvents' = Append(exitEvents, code)
    /\ hasChildProcs' = FALSE
    /\ running' = FALSE
    /\ UNCHANGED <<mode, started_, zombie, launches, startLog, onExitCalls>>
    /\ UNCHANGED <<seqVars, promptVars, runVars>>

\* onExit(exitCode): the supervisor reports the end of the process it runs
OnExit ==
    /\ running
    /\ \E code \in ExitCodes :
        /\ exitCode' = <<code>>
        /\ exitEvents' = Append(exitEvents, code)
        /\ onExitCalls' = Append(onExitCalls, code)
    /\ hasChildProcs' = FALSE
    /\ running' = FALSE
    /\ UNCHANGED <<mode, started_, zombie, launches, startLog>>
    /\ UNCHANGED <<seqVars, promptVars, runVars>>

SetZombie ==
    /\ ~zombie
    /\ zombie' = TRUE
    /\ hasChildProcs' = FALSE
    /\ UNCHANGED <<mode, started_, running, exitCode, launches, startLog,
                   exitEvents, onExitCalls>>
    /\ UNCHANGED <<seqVars, promptVars, runVars>>

InitStart ==
    /\ LifeInit
    /\ mode \in Modes
    /\ hasChildProcs \in BOOLEAN
    /\ SeqInit
    /\ nItems = 0
    /\ PromptIdle
    /\ RunIdle

NextStart ==
    \/ Start
    \/ OnExit
    \/ SetZombie

SpecStart == InitStart /\ [][NextStart]_vars

----------------------------------------------------------------------------
(* Actions of the sequencer                                                *)

\* a caller of enqueInput(input)
EnqueInput(input) ==
    LET r == enqueInput(inputQueue_, lastInputSequence_, input)
    IN  /\ inputQueue_' = r.queue
        /\ lastInputSequence_' = r.last
        /\ arrived' = arrived \cup {input.orig}
        /\ barrier' = IF input.sequence = kFlushSequence
                      THEN Append(Origs(inputQueue_), input.orig)
                      ELSE barrier
        /\ lastDrain' = NoDrain
        /\ UNCHANGED <<pendingCommand_, lastEnterTime_, stdinLog, commandAt, clock,
                       nItems, autoFlushed>>

\* a caller of processQueuedInput(ops): onContinue (line 515) on a tick
ProcessQueuedInput ==
    LET r == processQueuedInput(inputQueue_, lastInputSequence_, pendingCommand_,
                                lastEnterTime_, stdinLog, PTime(clock))
    IN  /\ inputQueue_' = r.queue
        /\ lastInputSequence_' = r.last
        /\ pendingCommand_' = r.pending
        /\ lastEnterTime_' = r.enter
        /\ stdinLog' = r.log
        /\ commandAt' = IF \E i \in 1..Len(r.out) : EndsWithCR(r.out[i].text)
                        THEN PTime(clock)
                        ELSE commandAt
        /\ autoFlushed' = (autoFlushed \/ r.degraded)
        /\ barrier' = <<>>
        /\ lastDrain' = [called |-> TRUE, pre |-> inputQueue_,
                         preLast |-> lastInputSequence_, out |-> r.out,
                         barrier |-> barrier]
        /\ UNCHANGED <<clock, nItems, arrived>>

\* the text of the items of the sequencer specifications
SeqText == <<"a">>

(* SpecP1: a fresh session receives the items numbered 1..N, each once, in *)
(* any arrival order, with processQueuedInput interleaved anywhere.        *)
MaxN == kAutoFlushLength + 1

InitP1 ==
    /\ SeqInit
    /\ nItems \in 1..MaxN
    /\ LifeInit
    /\ mode = "terminal"
    /\ hasChildProcs = FALSE
    /\ PromptIdle
    /\ RunIdle

EnqueDistinct ==
    /\ \E s \in (1..nItems) \ arrived :
           EnqueInput(Input(s, SeqText, TRUE))
    /\ UNCHANGED <<lifeVars, promptVars, runVars>>

TickP1 ==
    /\ ProcessQueuedInput
    /\ UNCHANGED <<lifeVars, promptVars, runVars>>

NextP1 ==
    \/ EnqueDistinct
    \/ TickP1

SpecP1 == InitP1 /\ [][NextP1]_vars

(* SpecSeq: any ordered, Unordered or FlushBarrier input, repeated         *)
(* sequence numbers included, up to MaxEnq inputs in all.                  *)
MaxEnq == kAutoFlushLength + 2

SeqDomain == {kIgnoreSequence, kFlushSequence} \cup (1..MaxSeq)

InitSeq ==
    /\ SeqInit
    /\ nItems = 0
    /\ LifeInit
    /\ mode = "terminal"
    /\ hasChildProcs = FALSE
    /\ PromptIdle
    /\ RunIdle

ClientEnque ==
    /\ Len(inputQueue_) + Len(stdinLog) < MaxEnq
    /\ \E s \in SeqDomain : EnqueInput(Input(s, SeqText, TRUE))
    /\ UNCHANGED <<lifeVars, promptVars, runVars>>

ClientInterrupt ==
    /\ Len(inputQueue_) + Len(stdinLog) < MaxEnq
    /\ EnqueInput(InterruptInput(kIgnoreSequence))
    /\ UNCHANGED <<lifeVars, promptVars, runVars>>

TickSeq ==
    /\ ProcessQueuedInput
    /\ UNCHANGED <<lifeVars, promptVars, runVars>>

NextSeq ==
    \/ ClientEnque
    \/ ClientInterrupt
    \/ TickSeq

SpecSeq == InitSeq /\ [][NextSeq]_vars

----------------------------------------------------------------------------
(* Output pipeline and prompt classifier: enqueOutputEvent, lines 620-657; *)
(* onStdout, lines 659-693; maybeConsolePrompt, lines 695-711;             *)
(* handleConsolePrompt, lines 713-739.  Text is a sequence of characters.  *)

Max(S) == CHOOSE x \in S : \A y \in S : x >= y

\* "a" stands for the letters and digits, "$" for the punctuation
Alphabet == {"a", "$", "_", SP, CR, BS, LF, FF}

\* \w of the regular expressions
WordChars == {"a", "_"}

\* regex_utils::search(output, controlCharsPattern_): "[\r\b]", line 174
HasControlChar(text) == \E i \in 1..Len(text) : text[i] \in {CR, BS}

\* regex_utils::match(output, promptPattern_): the whole text matches
\* "^(.+)[\W_]( +)$", line 175; k is the length of the run of spaces
MatchesPromptPattern(text) ==
    \E k \in 1..Len(text) - 2 :
        /\ \A i \in (Len(text) - k + 1)..Len(text) : text[i] = SP
        /\ text[Len(text) - k] \notin WordChars \/ text[Len(text) - k] = "_"

\* string_utils::convertLineEndings(&s, LineEndingPosix) (core library, not
\* among the sources): "\r\n" becomes "\n"
RECURSIVE convertLineEndings(_)
convertLineEndings(text) ==
    IF text = <<>> THEN <<>>
    ELSE IF Len(text) >= 2 /\ text[1] = CR /\ text[2] = LF
         THEN <<LF>> \o convertLineEndings(SubSeq(text, 3, Len(text)))
         ELSE <<text[1]>> \o convertLineEndings(Tail(text))

\* string_utils::trimLeadingLines(maxLines, &s) (core library, not among the
\* sources): with more than maxLines newlines, only what follows the
\* (maxLines+1)-th newline from the end is kept
trimLeadingLines(maxLines, text) ==
    LET nl == {i \in 1..Len(text) : text[i] = LF}
        cut == {i \in nl : Cardinality({j \in nl : j >= i}) = maxLines + 1}
    IN  IF cut = {} THEN text
        ELSE SubSeq(text, Max(cut) + 1, Len(text))

\* enqueOutputEvent(output); st holds the members and logs the output side
\* writes.  The alternate-buffer bookkeeping of lines 631-637 lives in the
\* session-record store.
enqueOutputEvent(st, cfg, output) ==
    [st EXCEPT !.privateLoop = FALSE,
               !.buffer = Append(@, output),
               !.sent = Append(@,
                    IF cfg.channel = "Websocket"
                    THEN [via |-> "sendText", text |-> output]
                    ELSE [via |-> "ConsoleProcessOutput",
                          text |-> trimLeadingLines(MaxOutputLines, output)])]

\* mutant: the handled branch falls through to the prompt event
handleConsolePrompt_NoReturn(st, cfg, prompt) ==
    IF cfg.handler.set /\ cfg.handler.handled
    THEN IF ~IsEmpty(cfg.handler.input)
         THEN [st EXCEPT !.handlerCalls = Append(@, prompt),
                         !.queue = enqueInput(st.queue, st.last, cfg.handler.input).queue,
                         !.last = enqueInput(st.queue, st.last, cfg.handler.input).last,
                         !.promptEvents = Append(@, prompt)]
         ELSE [st EXCEPT !.handlerCalls = Append(@, prompt),
                         !.terminates = @ + 1,
                         !.promptEvents = Append(@, prompt)]
    ELSE [st EXCEPT !.handlerCalls = IF cfg.handler.set THEN Append(@, prompt) ELSE @,
                    !.promptEvents = Append(@, prompt)]

\* handleConsolePrompt(ops, prompt); cfg.handler is onPrompt_ and its answer
handleConsolePrompt(st, cfg, prompt) ==
    IF cfg.handler.set /\ cfg.handler.handled
    THEN IF ~IsEmpty(cfg.handler.input)
         THEN [st EXCEPT !.handlerCalls = Append(@, prompt),
                         !.queue = enqueInput(st.queue, st.last, cfg.handler.input).queue,
                         !.last = enqueInput(st.queue, st.last, cfg.handler.input).last]
         ELSE [st EXCEPT !.handlerCalls = Append(@, prompt),
                         !.terminates = @ + 1]
    ELSE [st EXCEPT !.handlerCalls = IF cfg.handler.set THEN Append(@, prompt) ELSE @,
                    !.promptEvents = Append(@, prompt)]

\* the flush of lines 702 and 706, counted in the call's history record
flushCandidate(st, cfg, output) ==
    [enqueOutputEvent(st, cfg, output) EXCEPT !.classified.flushes = @ + 1]

\* maybeConsolePrompt(ops, output): line 701 is an if without else
maybeConsolePrompt(st, cfg, output) ==
    LET entered == [st EXCEPT !.classified =
                        [called |-> TRUE, candidate |-> output, flushes |-> 0]]
        afterControl == IF HasControlChar(output)
                        THEN flushCandidate(entered, cfg, output)
                        ELSE entered
    IN  IF ~MatchesPromptPattern(output)
        THEN flushCandidate(afterControl, cfg, output)
        ELSE handleConsolePrompt(afterControl, cfg, output)

\* onStdout(ops, output)
onStdout(st, cfg, output) ==
    IF cfg.smartTerminal
    THEN enqueOutputEvent(st, cfg, output)
    ELSE LET posixOutput == convertLineEndings(output)
             breaks == {i \in 1..Len(posixOutput) : posixOutput[i] \in {LF, FF}}
         IN  IF posixOutput # <<>> /\ posixOutput[Len(posixOutput)] = LF
             THEN enqueOutputEvent(st, cfg, posixOutput)
             ELSE IF breaks # {}
             THEN maybeConsolePrompt(
                      enqueOutputEvent(st, cfg,
                          SubSeq(posixOutput, 1, Max(breaks) - 1)),
                      cfg,
                      SubSeq(posixOutput, Max(breaks) + 1, Len(posixOutput)))
             ELSE maybeConsolePrompt(st, cfg, posixOutput)

RECURSIVE TextsUpTo(_)
TextsUpTo(n) ==
    IF n = 0 THEN {<<>>}
    ELSE TextsUpTo(n - 1) \cup
         {Append(t, c) : t \in {u \in TextsUpTo(n - 1) : Len(u) = n - 1},
                         c \in Alphabet}

\* what a custom prompt handler can answer: decline, or handle the prompt
\* with a text, an interrupt or an empty Input
HandlerAnswers ==
    {[set |-> TRUE, handled |-> FALSE, input |-> EmptyInput],
     [set |-> TRUE, handled |-> TRUE,
      input |-> Input(kIgnoreSequence, <<"a", CR>>, TRUE)],
     [set |-> TRUE, handled |-> TRUE, input |-> InterruptInput(kIgnoreSequence)],
     [set |-> TRUE, handled |-> TRUE, input |-> EmptyInput]}

(* SpecPrompt: one onStdout call on a session of any configuration, for    *)
(* every chunk of at most MaxChunkLen characters.                          *)
InitPrompt ==
    /\ SeqInit
    /\ nItems = 0
    /\ LifeInit
    /\ mode \in {"command", "terminal"}
    /\ hasChildProcs = FALSE
    /\ PromptInit
    /\ chunk \in TextsUpTo(MaxChunkLen)
    /\ smartTerminal \in BOOLEAN
    /\ channelMode \in {"Rpc", "Websocket"}
    /\ onPrompt_ \in {NoHandler} \cup HandlerAnswers
    /\ RunIdle

\* a call of onStdout(ops, chunk) by the polling driver
DeliverStdout ==
    /\ LET r == onStdout([privateLoop |-> privateCommandLoop_,
                          buffer |-> outputBuffer, sent |-> sent,
                          classified |-> NoClassify,
                          handlerCalls |-> handlerCalls,
                          promptEvents |-> promptEvents,
                          terminates |-> terminateCalls,
                          queue |-> inputQueue_, last |-> lastInputSequence_],
                         [smartTerminal |-> smartTerminal, channel |-> channelMode,
                          handler |-> onPrompt_],
                         chunk)
       IN  /\ privateCommandLoop_' = r.privateLoop
           /\ outputBuffer' = r.buffer
           /\ sent' = r.sent
           /\ classified' = r.classified
           /\ handlerCalls' = r.handlerCalls
           /\ promptEvents' = r.promptEvents
           /\ terminateCalls' = r.terminates
           /\ inputQueue_' = r.queue
           /\ lastInputSequence_' = r.last
    /\ stdoutCalls' = stdoutCalls + 1
    /\ UNCHANGED <<chunk, smartTerminal, channelMode, onPrompt_>>
    /\ UNCHANGED <<pendingCommand_, lastEnterTime_, stdinLog, commandAt, clock,
                   nItems, arrived, barrier, autoFlushed, lastDrain>>
    /\ UNCHANGED <<lifeVars, runVars>>

OnStdout ==
    /\ stdoutCalls = 0
    /\ DeliverStdout

NextPrompt == OnStdout

SpecPrompt == InitPrompt /\ [][NextPrompt]_vars

----------------------------------------------------------------------------
(* Tick loop and private sampling: privateCommandLoop, lines 429-490;      *)
(* onContinue, lines 492-546; onReceivedInput, lines 1000-1013.  The       *)
(* polling driver runs onContinue, onStdout, onHasSubprocs and onExit one  *)
(* after the other; onReceivedInput runs on a push-channel thread and the  *)
(* requests of the client (interrupt, interruptChild, resize, enqueInput)  *)
(* on the request thread, so a step of theirs can fall between the two     *)
(* halves of a tick: the checks made under inputQueueMutex_ (lines 445-473)*)
(* and the write that follows the unlock (lines 475-487).                  *)

\* minimum delay between private command executions, in ms
kPrivateCommandDelay == 3000

\* delay after a command before a private command is considered, in ms
kWaitForCommandDelay == 1500

\* time that passes in one step of the clock
ClockStep == kWaitForCommandDelay

\* steps of the clock in one behaviour
MaxClockSteps == 5

\* inputs a session receives in one behaviour
MaxSessInputs == 2

\* output events a session receives in one behaviour
MaxOutputs == 1

\* what a client types: a character, or the Enter key
SessTexts == {<<"a">>, <<CR>>}

\* mutant: the elapsed-time test of line 452 left out
privateCommandLoop_NoIdleWindow(tracking, childProcs, inProgress, pending, enter, lastPrivate, currentTime) ==
    IF ~tracking \/ childProcs THEN "false"
    ELSE IF inProgress THEN "true"
    ELSE IF pending \/ IsNotADateTime(enter) THEN "false"
    ELSE IF /\ ~IsNotADateTime(lastPrivate)
            /\ TimeLeq(TimeMinus(currentTime, kPrivateCommandDelay), lastPrivate)
         THEN "false"
    ELSE IF ~IsNotADateTime(lastPrivate) /\ ~TimeLeq(lastPrivate, enter)
         THEN "false"
    ELSE "inject"

\* mutant: the in-progress test of line 435 left out
privateCommandLoop_NoProgressTest(tracking, childProcs, inProgress, pending, enter, lastPrivate, currentTime) ==
    IF ~tracking \/ childProcs THEN "false"
    ELSE IF pending \/ IsNotADateTime(enter) THEN "false"
    ELSE IF TimeLeq(TimeMinus(currentTime, kWaitForCommandDelay), enter)
         THEN "false"
    ELSE "inject"

\* privateCommandLoop up to the end of the locked block, lines 431-473:
\* "false" and "true" are the values returned, "inject" means the function
\* goes on to line 475
privateCommandLoop(tracking, childProcs, inProgress, pending, enter, lastPrivate, currentTime) ==
    IF ~tracking \/ childProcs THEN "false"
    ELSE IF inProgress THEN "true"
    ELSE IF pending \/ IsNotADateTime(enter) THEN "false"
    ELSE IF TimeLeq(TimeMinus(currentTime, kWaitForCommandDelay), enter)
         THEN "false"
    ELSE IF /\ ~IsNotADateTime(lastPrivate)
            /\ TimeLeq(TimeMinus(currentTime, kPrivateCommandDelay), lastPrivate)
         THEN "false"
    ELSE IF ~IsNotADateTime(lastPrivate) /\ ~TimeLeq(lastPrivate, enter)
         THEN "false"
    ELSE "inject"

\* mutant: a failed write leaves the time of the attempt in place
sendPrivateCommand_KeepTime(currentTime, error) ==
    IF error
    THEN [inProgress |-> FALSE, lastPrivate |-> currentTime, ret |-> FALSE]
    ELSE [inProgress |-> TRUE, lastPrivate |-> currentTime, ret |-> TRUE]

\* privateCommandLoop from line 475: privateCommandLoop_, lastPrivateCommand_
\* and the value returned, for the Error that writeToStdin returned
sendPrivateCommand(currentTime, error) ==
    IF error
    THEN [inProgress |-> FALSE, lastPrivate |-> PosInfin, ret |-> FALSE]
    ELSE [inProgress |-> TRUE, lastPrivate |-> currentTime, ret |-> TRUE]

\* the ops calls of one processQueuedInput call, from the inputs it dequeued
InputCalls(out) ==
    [i \in 1..Len(out) |->
        IF out[i].interrupt THEN "ptyInterrupt" ELSE "writeToStdin"]

\* the ops calls that return an Error
CanFail(calls) ==
    \E i \in 1..Len(calls) : calls[i] \in {"ptyInterrupt", "writeToStdin"}

\* lines 501-504, 561-563, 586-588: an Error of the operations interface is
\* logged and the tick returns true (lines 510, 545)
tickReturn(failed) == "continue"

\* mutant: the pending resize dropped without the ptySetSize call
applyResize_ClearOnly(size) ==
    [calls |-> <<>>, persisted |-> NoSize, pending |-> NoSize]

\* lines 532-540: the ops call made for a pending resize, the geometry
\* written to the session record, and newCols_/newRows_ afterwards
applyResize(size) ==
    IF size # NoSize
    THEN [calls |-> <<"ptySetSize">>, persisted |-> size, pending |-> NoSize]
    ELSE [calls |-> <<>>, persisted |-> NoSize, pending |-> size]

\* onContinue from line 515: queued input, capture of the operations
\* handle, pending resize, pid.  calls are the ops calls the tick has made
\* so far, failed whether one of them returned an Error.  The new geometry
\* and the pid go to the session-record store.
ContinueFromInput(calls, failed, childAsked) ==
    /\ ProcessQueuedInput
    /\ haveProcOps_' = (haveProcOps_ \/ channelMode = "Websocket")
    /\ pOps_' = IF channelMode = "Websocket" /\ ~haveProcOps_ THEN "ops" ELSE pOps_
    /\ newSize' = applyResize(newSize).pending
    /\ \E inputFailed \in {FALSE, CanFail(InputCalls(lastDrain'.out))} :
        lastTick' = [ret |-> tickReturn(failed \/ inputFailed),
                     calls |-> calls \o InputCalls(lastDrain'.out)
                               \o applyResize(newSize).calls
                               \o <<"getPid">>,
                     failed |-> failed \/ inputFailed,
                     stopAsked |-> FALSE, childAsked |-> childAsked,
                     persisted |-> applyResize(newSize).persisted]

\* mutant: the full-stop test of lines 495-496 left out
stopRequested_Never(interruptFlag) == FALSE

\* lines 495-496: the tick returns false at once
stopRequested(interruptFlag) == interruptFlag

\* onContinue up to the end of the locked block of privateCommandLoop; when
\* no sample is to be injected, the rest of the tick as well
TickBegin ==
    /\ running
    /\ tickPc = Idle
    /\ IF stopRequested(interrupt_)
       THEN /\ lastTick' = [ret |-> "stop", calls |-> <<>>, failed |-> FALSE,
                            stopAsked |-> interrupt_,
                            childAsked |-> interruptChild_,
                            persisted |-> NoSize]
            /\ UNCHANGED <<seqVars, interruptChild_, haveProcOps_, pOps_, newSize,
                           tickPc>>
       ELSE LET first == IF interruptChild_ THEN <<"ptyInterrupt">> ELSE <<>>
                gate == privateCommandLoop(trackEnv, hasChildProcs,
                            privateCommandLoop_, pendingCommand_, lastEnterTime_,
                            lastPrivateCommand_, PTime(clock))
            IN  /\ interruptChild_' = FALSE
                /\ \E failed \in {FALSE, interruptChild_} :
                    IF gate = "false"
                    THEN /\ ContinueFromInput(first, failed, interruptChild_)
                         /\ UNCHANGED tickPc
                    ELSE /\ tickPc' = IF gate = "inject"
                                      THEN [at |-> "inject",
                                            currentTime |-> PTime(clock),
                                            seen |-> Len(stdinLog)]
                                      ELSE Idle
                         /\ lastTick' = [ret |-> IF gate = "inject" THEN "running"
                                                 ELSE tickReturn(failed),
                                         calls |-> first, failed |-> failed,
                                         stopAsked |-> interrupt_,
                                         childAsked |-> interruptChild_,
                                         persisted |-> NoSize]
                         /\ UNCHANGED <<seqVars, haveProcOps_, pOps_, newSize>>
    /\ UNCHANGED <<privateCommandLoop_, lastPrivateCommand_>>
    /\ UNCHANGED <<interrupt_, trackEnv, childProcsSent_, cwd, pushPc,
                   sampleLog, subprocEvents, cwdEvents, lastNotify, chanVars, lockVars>>
    /\ UNCHANGED <<lifeVars, chunk, smartTerminal, channelMode, onPrompt_,
                   outputBuffer, sent, classified, handlerCalls, promptEvents,
                   terminateCalls, stdoutCalls>>

\* the rest of a tick that injects a sample: lines 475-487, then line 510
\* or, when the write failed, lines 515-545
TickInject ==
    /\ tickPc.at = "inject"
    /\ \E error \in BOOLEAN :
        LET r == sendPrivateCommand(tickPc.currentTime, error)
            calls == Append(lastTick.calls, "writeToStdin")
        IN  /\ privateCommandLoop_' = r.inProgress
            /\ lastPrivateCommand_' = r.lastPrivate
            /\ IF r.ret
               THEN /\ lastTick' = [ret |-> tickReturn(lastTick.failed \/ error),
                                    calls |-> calls,
                                    failed |-> lastTick.failed \/ error,
                                    stopAsked |-> lastTick.stopAsked,
                                    childAsked |-> lastTick.childAsked,
                                    persisted |-> NoSize]
                    /\ UNCHANGED <<seqVars, haveProcOps_, pOps_, newSize>>
               ELSE ContinueFromInput(calls, lastTick.failed \/ error,
                                      lastTick.childAsked)
            /\ sampleLog' = Append(sampleLog,
                    [at |-> tickPc.currentTime.ms, error |-> error,
                     seen |-> tickPc.seen, outputs |-> Len(sent),
                     flagBefore |-> privateCommandLoop_])
    /\ tickPc' = Idle
    /\ UNCHANGED <<interrupt_, interruptChild_, trackEnv, childProcsSent_, cwd,
                   pushPc, subprocEvents, cwdEvents, lastNotify, chanVars, lockVars>>
    /\ UNCHANGED <<lifeVars, chunk, smartTerminal, channelMode, onPrompt_,
                   outputBuffer, sent, classified, handlerCalls, promptEvents,
                   terminateCalls, stdoutCalls>>

\* pOps_.lock(), line 1005: the operations object belongs to the process
\* supervisor and lives as long as the process runs
OpsResolves == pOps_ = "ops" /\ running

\* mutant: onReceivedInput without the test of line 1008
mayDrainNow_NoProgressTest(resolves, inProgress) == resolves

\* lines 1006-1009: whether onReceivedInput calls processQueuedInput
mayDrainNow(resolves, inProgress) == resolves /\ ~inProgress

\* onReceivedInput up to line 1008: Input(input) is an Unordered text
PushReceive ==
    /\ pushPc.at = "idle"
    /\ Len(inputQueue_) + Len(stdinLog) < MaxSessInputs
    /\ \E text \in SessTexts : EnqueInput(Input(kIgnoreSequence, text, TRUE))
    /\ pushPc' = [at |-> IF mayDrainNow(OpsResolves, privateCommandLoop_)
                         THEN "drain"
                         ELSE "idle",
                  n |-> pushPc.n + 1,
                  wrote |-> pushPc.wrote]
    /\ UNCHANGED <<trackEnv, interrupt_, interruptChild_, newSize,
                   lastPrivateCommand_, haveProcOps_, pOps_, childProcsSent_, cwd,
                   tickPc, lastTick, sampleLog, subprocEvents, cwdEvents, lastNotify, chanVars, lockVars>>
    /\ UNCHANGED <<lifeVars, promptVars>>

\* onReceivedInput, line 1009
PushDrain ==
    /\ pushPc.at = "drain"
    /\ ProcessQueuedInput
    /\ pushPc' = [pushPc EXCEPT !.at = "idle",
                                !.wrote = @ + Len(inputQueue_) - Len(inputQueue_')]
    /\ UNCHANGED <<trackEnv, interrupt_, interruptChild_, newSize,
                   lastPrivateCommand_, haveProcOps_, pOps_, childProcsSent_, cwd,
                   tickPc, lastTick, sampleLog, subprocEvents, cwdEvents, lastNotify, chanVars, lockVars>>
    /\ UNCHANGED <<lifeVars, promptVars>>

\* onHasSubprocs(hasSubprocs), lines 757-770: whether kTerminalSubprocs is
\* enqueued, getHasChildProcs() and childProcsSent_ afterwards
onHasSubprocs(stored, notified, hasSubprocs) ==
    IF hasSubprocs # stored \/ ~notified
    THEN [emit |-> TRUE, stored |-> hasSubprocs, notified |-> TRUE]
    ELSE [emit |-> FALSE, stored |-> stored, notified |-> notified]

\* a call of onHasSubprocs(v) by the polling driver
OnHasSubprocs(v) ==
    /\ running
    /\ tickPc = Idle
    /\ LET r == onHasSubprocs(hasChildProcs, childProcsSent_, v)
       IN  /\ hasChildProcs' = r.stored
           /\ childProcsSent_' = r.notified
           /\ subprocEvents' = IF r.emit THEN Append(subprocEvents, r.stored)
                                ELSE subprocEvents
    /\ UNCHANGED <<trackEnv, interrupt_, interruptChild_, newSize,
                   lastPrivateCommand_, haveProcOps_, pOps_, cwd, tickPc,
                   pushPc, lastTick, sampleLog, cwdEvents, chanVars, lockVars>>
    /\ UNCHANGED <<mode, started_, zombie, running, exitCode, launches, startLog,
                   exitEvents, onExitCalls>>
    /\ UNCHANGED <<seqVars, promptVars>>

\* the working directories a shell reports
Cwds == {"home", "tmp"}

\* a call of reportCwd(dir) by the polling driver, lines 772-787
ReportCwd(dir) ==
    /\ running
    /\ tickPc = Idle
    /\ cwd' = dir
    /\ cwdEvents' = IF dir # cwd THEN Append(cwdEvents, dir) ELSE cwdEvents
    /\ childProcsSent_' = IF dir # cwd THEN TRUE ELSE childProcsSent_
    /\ UNCHANGED <<trackEnv, interrupt_, interruptChild_, newSize,
                   lastPrivateCommand_, haveProcOps_, pOps_, tickPc,
                   pushPc, lastTick, sampleLog, subprocEvents, chanVars, lockVars>>
    /\ UNCHANGED <<lifeVars, seqVars, promptVars>>

\* onStdout on a running session, between two ticks
StdoutEvent ==
    /\ running
    /\ tickPc = Idle
    /\ Len(sent) < MaxOutputs
    /\ DeliverStdout

\* child-process notifications a session receives in one behaviour
MaxNotifications == 1

\* onHasSubprocs on a running session, as long as notifications are few
SubprocsEvent ==
    /\ Len(subprocEvents) < MaxNotifications
    /\ \E v \in BOOLEAN : OnHasSubprocs(v)
    /\ UNCHANGED lastNotify

\* onExit on a running session, between two ticks
ExitEvent ==
    /\ tickPc = Idle
    /\ OnExit

\* interrupt(), lines 413-416
Interrupt ==
    /\ ~interrupt_
    /\ interrupt_' = TRUE
    /\ UNCHANGED <<trackEnv, interruptChild_, newSize, lastPrivateCommand_,
                   haveProcOps_, pOps_, childProcsSent_, cwd, tickPc,
                   pushPc, lastTick, sampleLog, subprocEvents, cwdEvents, lastNotify, chanVars, lockVars>>
    /\ UNCHANGED <<lifeVars, seqVars, promptVars>>

\* interruptChild(), lines 418-421
InterruptChild ==
    /\ ~interruptChild_
    /\ interruptChild_' = TRUE
    /\ UNCHANGED <<trackEnv, interrupt_, newSize, lastPrivateCommand_,
                   haveProcOps_, pOps_, childProcsSent_, cwd, tickPc,
                   pushPc, lastTick, sampleLog, subprocEvents, cwdEvents, lastNotify, chanVars, lockVars>>
    /\ UNCHANGED <<lifeVars, seqVars, promptVars>>

\* the geometry a client asks for
Sizes == {<<80, 25>>}

\* resize(cols, rows), lines 423-427
Resize ==
    /\ newSize = NoSize
    /\ \E size \in Sizes : newSize' = size
    /\ UNCHANGED <<trackEnv, interrupt_, interruptChild_, lastPrivateCommand_,
                   haveProcOps_, pOps_, childProcsSent_, cwd, tickPc,
                   pushPc, lastTick, sampleLog, subprocEvents, cwdEvents, lastNotify, chanVars, lockVars>>
    /\ UNCHANGED <<lifeVars, seqVars, promptVars>>

\* now() moves on
Advance ==
    /\ clock < MaxClockSteps * ClockStep
    /\ clock' = clock + ClockStep
    /\ UNCHANGED <<inputQueue_, lastInputSequence_, pendingCommand_, lastEnterTime_,
                   stdinLog, commandAt, nItems, arrived, barrier, autoFlushed,
                   lastDrain>>
    /\ UNCHANGED <<lifeVars, promptVars, runVars>>

\* the state start() leaves when the supervisor launched the process
Launched ==
    /\ started_ = TRUE
    /\ zombie = FALSE
    /\ running = TRUE
    /\ exitCode = NoExitCode
    /\ launches = <<[fn |-> LaunchFn(mode), error |-> Success]>>
    /\ startLog = <<[startedBefore |-> FALSE, zombieBefore |-> FALSE,
                     launched |-> TRUE, ret |-> Success, nLaunches |-> 1]>>
    /\ exitEvents = <<>>
    /\ onExitCalls = <<>>

(* SpecSample: a started terminal session on the push channel, ticked by   *)
(* the polling driver while push-channel input, output events and          *)
(* child-process notifications arrive and time passes.                     *)
InitSample ==
    /\ SeqInit
    /\ nItems = 0
    /\ mode = "terminal"
    /\ Launched
    /\ hasChildProcs = FALSE
    /\ PromptInit
    /\ chunk = <<"a", LF>>
    /\ smartTerminal = TRUE
    /\ channelMode = "Websocket"
    /\ onPrompt_ = NoHandler
    /\ RunInit
    /\ trackEnv \in BOOLEAN
    /\ cwd = "home"
    /\ created = TRUE
    /\ listening = TRUE
    /\ lastCreate = NoCreate

NextSample ==
    \/ TickBegin
    \/ TickInject
    \/ PushReceive
    \/ PushDrain
    \/ StdoutEvent
    \/ SubprocsEvent
    \/ Advance

SpecSample == InitSample /\ [][NextSample]_vars

(* SpecPush: the session of SpecSample until its process exits: ticks,    *)
(* push-channel input, output events, the passing of time and onExit.      *)

NextPush ==
    \/ TickBegin
    \/ TickInject
    \/ PushReceive
    \/ PushDrain
    \/ StdoutEvent
    \/ ExitEvent
    \/ Advance

SpecPush == InitSample /\ [][NextPush]_vars

(* SpecTick: the session of SpecSample with the requests of the client:    *)
(* interrupt, interruptChild and resize arrive between and during ticks,   *)
(* with push-channel input and the passing of time.                        *)

NextTick ==
    \/ TickBegin
    \/ TickInject
    \/ PushReceive
    \/ PushDrain
    \/ Interrupt
    \/ InterruptChild
    \/ Resize
    \/ Advance

SpecTick == InitSample /\ [][NextTick]_vars

(* SpecNotify: the notifications of a started session: onHasSubprocs and   *)
(* reportCwd in any order and with any arguments, setZombie and onExit.    *)

\* notifications of each kind a session emits in one behaviour
MaxNotifyEvents == 3

NotifySubprocs ==
    /\ Len(subprocEvents) < MaxNotifyEvents
    /\ \E v \in BOOLEAN :
        /\ OnHasSubprocs(v)
        /\ lastNotify' = [op |-> "onHasSubprocs", arg |-> v,
                          storedBefore |-> hasChildProcs,
                          sentBefore |-> subprocEvents # <<>>,
                          emitted |-> subprocEvents' # subprocEvents]

NotifyCwd ==
    /\ Len(cwdEvents) < MaxNotifyEvents
    /\ \E dir \in Cwds :
        /\ ReportCwd(dir)
        /\ lastNotify' = [op |-> "reportCwd", arg |-> dir # cwd,
                          storedBefore |-> hasChildProcs,
                          sentBefore |-> subprocEvents # <<>>,
                          emitted |-> cwdEvents' # cwdEvents]

\* the session record is the caller's: its child-process flag can be either
InitNotify ==
    /\ SeqInit
    /\ nItems = 0
    /\ mode \in Modes
    /\ Launched
    /\ hasChildProcs \in BOOLEAN
    /\ PromptIdle
    /\ RunIdle

NextNotify ==
    \/ NotifySubprocs
    \/ NotifyCwd
    \/ SetZombie
    \/ OnExit

SpecNotify == InitNotify /\ [][NextNotify]_vars

----------------------------------------------------------------------------
(* Channel selection: createTerminalProcess, lines 874-965 and 975-987;    *)
(* setRpcMode, lines 802-806; onConnectionClosed, lines 1016-1019.  One    *)
(* terminal handle is followed: `created` says that the table holds a      *)
(* ConsoleProcess for it, channelMode is procInfo_->getChannelMode() of    *)
(* that object and `listening` says that s_terminalSocket holds a listener *)
(* for the handle.                                                         *)

\* createTerminalProcess calls in one behaviour
MaxCreates == 2

\* cp->resize(kDefaultCols / 2, kDefaultRows / 2), line 924
HalfDefaultSize == <<40, 12>>

\* lines 889-906: the channel mode written into the procInfo passed in
selectChannelMode(enableWebsockets, serverError) ==
    IF enableWebsockets /\ ~serverError THEN "Websocket" ELSE "Rpc"

\* createTerminalProcess(options, procInfo, enableWebsockets) for a procInfo
\* that allows restart and carries the handle: whether the call returns
\* the process the table holds (line 913), the channel mode of the
\* returned process and whether line 961 registers a listener.  sameRecord
\* says that procInfo is the procInfo_ of the process in the table, as it
\* is under createTerminalProcess(proc), line 986.
createTerminalProcess(exists, isStarted, modeBefore, enableWebsockets, serverError, sameRecord) ==
    LET chosen == selectChannelMode(enableWebsockets, serverError)
        reattached == exists /\ isStarted
        after == IF reattached /\ ~sameRecord THEN modeBefore ELSE chosen
    IN  [reattached |-> reattached, mode |-> after,
         listened |-> after = "Websocket"]

\* a call of createTerminalProcess for the handle
CreateTerminal ==
    /\ lastCreate.n < MaxCreates
    /\ \E enableWebsockets \in BOOLEAN, serverError \in BOOLEAN,
          sameRecord \in BOOLEAN, altBufferActive \in BOOLEAN :
        /\ sameRecord => created
        /\ serverError => enableWebsockets
        /\ altBufferActive => created /\ started_
        /\ LET r == createTerminalProcess(created, started_, channelMode,
                        enableWebsockets, serverError, sameRecord)
           IN  /\ channelMode' = r.mode
               /\ listening' = (listening \/ r.listened)
               /\ newSize' = IF r.reattached /\ altBufferActive
                             THEN HalfDefaultSize
                             ELSE newSize
               /\ lastCreate' = [n |-> lastCreate.n + 1,
                                 enableWebsockets |-> enableWebsockets,
                                 serverError |-> serverError,
                                 reattached |-> r.reattached,
                                 sameRecord |-> sameRecord,
                                 listened |-> r.listened]
    /\ created' = TRUE
    /\ UNCHANGED <<trackEnv, interrupt_, interruptChild_, lastPrivateCommand_,
                   haveProcOps_, pOps_, childProcsSent_, cwd, tickPc, pushPc,
                   lastTick, sampleLog, subprocEvents, cwdEvents, lastNotify, lockVars>>
    /\ UNCHANGED <<chunk, smartTerminal, onPrompt_, outputBuffer, sent,
                   classified, handlerCalls, promptEvents, terminateCalls,
                   stdoutCalls, privateCommandLoop_>>
    /\ UNCHANGED <<lifeVars, seqVars>>

\* setRpcMode(), lines 802-806
SetRpcMode ==
    /\ created
    /\ listening' = FALSE
    /\ channelMode' = "Rpc"
    /\ UNCHANGED <<created, lastCreate>>
    /\ UNCHANGED <<trackEnv, interrupt_, interruptChild_, newSize,
                   lastPrivateCommand_, haveProcOps_, pOps_, childProcsSent_, cwd,
                   tickPc, pushPc, lastTick, sampleLog, subprocEvents, cwdEvents,
                   lastNotify, lockVars>>
    /\ UNCHANGED <<chunk, smartTerminal, onPrompt_, outputBuffer, sent,
                   classified, handlerCalls, promptEvents, terminateCalls,
                   stdoutCalls, privateCommandLoop_>>
    /\ UNCHANGED <<lifeVars, seqVars>>

\* onConnectionClosed(), lines 1016-1019
OnConnectionClosed ==
    /\ listening
    /\ listening' = FALSE
    /\ UNCHANGED <<created, lastCreate>>
    /\ UNCHANGED <<trackEnv, interrupt_, interruptChild_, newSize,
                   lastPrivateCommand_, haveProcOps_, pOps_, childProcsSent_, cwd,
                   tickPc, pushPc, lastTick, sampleLog, subprocEvents, cwdEvents,
                   lastNotify, lockVars>>
    /\ UNCHANGED <<lifeVars, seqVars, promptVars>>

\* start() on the process the table holds
StartCreated ==
    /\ created
    /\ Start

(* SpecChannel: a terminal handle for which createTerminalProcess is       *)
(* called with any configuration and any outcome of ensureServerRunning,   *)
(* with a fresh procInfo or with the one of the process in the table; the  *)
(* process is started, switched to the poll channel, loses its connection  *)
(* and exits in any order.                                                 *)

InitChannel ==
    /\ LifeInit
    /\ mode = "terminal"
    /\ hasChildProcs = FALSE
    /\ SeqInit
    /\ nItems = 0
    /\ PromptIdle
    /\ RunInit
    /\ trackEnv = FALSE
    /\ cwd = "home"
    /\ created = FALSE
    /\ listening = FALSE
    /\ lastCreate = NoCreate

NextChannel ==
    \/ CreateTerminal
    \/ StartCreated
    \/ SetRpcMode
    \/ OnConnectionClosed
    \/ OnExit

SpecChannel == InitChannel /\ [][NextChannel]_vars

----------------------------------------------------------------------------
(* The two mutexes: inputQueueMutex_ (lines 312, 445, 550) and             *)
(* procOpsMutex_ (lines 523, 1003).  LOCK_MUTEX holds a scoped lock from   *)
(* its opening brace to END_LOCK_MUTEX, also across a return inside.  Each *)
(* callback is cut at its lock operations and at its calls of the process; *)
(* the steps of the driver's thread and of the push threads interleave.    *)

\* mutant: LOCK_MUTEX that does not take the mutex
lock_NoOp(owner, c) == owner

\* LOCK_MUTEX(m) by context c: the owner of m afterwards
lock(owner, c) == c

\* mutant: a scope left without releasing the mutex
unlock_Keep(owner) == owner

\* END_LOCK_MUTEX, or a return inside the locked block
unlock(owner) == "free"

\* the mutexes context c holds
LocksOf(c) ==
    {m \in {"inputQueueMutex_", "procOpsMutex_"} :
        \/ m = "inputQueueMutex_" /\ inputQueueMutex_ = c
        \/ m = "procOpsMutex_" /\ procOpsMutex_ = c}

\* context c at the given place, processQueuedInput or enqueInput returning
\* to ret
At(c, pc, ret) == [ctx EXCEPT ![c].pc = pc, ![c].ret = ret]

\* onContinue, lines 495-505, and privateCommandLoop, lines 431-442
TickStart ==
    /\ running
    /\ ctx["driver"].pc = "idle"
    /\ IF stopRequested(interrupt_)
       THEN UNCHANGED <<interruptChild_, ctx>>
       ELSE /\ interruptChild_' = FALSE
            /\ ctx' = [ctx EXCEPT !["driver"] =
                          IF ~trackEnv \/ hasChildProcs
                          THEN [IdleCtx EXCEPT !.pc = "pq_lock", !.ret = "capture"]
                          ELSE IF privateCommandLoop_
                          THEN IdleCtx
                          ELSE [IdleCtx EXCEPT !.pc = "pcl_lock",
                                               !.t = PTime(clock)]]
    /\ UNCHANGED <<seqVars, lifeVars, promptVars, trackEnv, interrupt_,
                   newSize, lastPrivateCommand_, haveProcOps_, pOps_,
                   childProcsSent_, cwd, tickPc, pushPc, lastTick, sampleLog,
                   subprocEvents, cwdEvents, lastNotify, created, listening,
                   lastCreate, inputQueueMutex_, procOpsMutex_>>

\* privateCommandLoop, line 445
PclLock ==
    /\ ctx["driver"].pc = "pcl_lock"
    /\ inputQueueMutex_ = "free"
    /\ inputQueueMutex_' = lock(inputQueueMutex_, "driver")
    /\ ctx' = At("driver", "pcl_test", "idle")
    /\ UNCHANGED <<seqVars, lifeVars, promptVars, trackEnv, interrupt_,
                   interruptChild_, newSize, lastPrivateCommand_,
                   haveProcOps_, pOps_, childProcsSent_, cwd, tickPc, pushPc,
                   lastTick, sampleLog, subprocEvents, cwdEvents, lastNotify,
                   created, listening, lastCreate, procOpsMutex_>>

\* privateCommandLoop, lines 447-473: the gates, read under the lock
PclTest ==
    /\ ctx["driver"].pc = "pcl_test"
    /\ LET gate == privateCommandLoop(trackEnv, hasChildProcs, FALSE,
                       pendingCommand_, lastEnterTime_, lastPrivateCommand_,
                       ctx["driver"].t)
       IN  ctx' = IF gate = "inject"
                  THEN At("driver", "pcl_write", "idle")
                  ELSE At("driver", "pq_lock", "capture")
    /\ inputQueueMutex_' = unlock(inputQueueMutex_)
    /\ UNCHANGED <<seqVars, lifeVars, promptVars, trackEnv, interrupt_,
                   interruptChild_, newSize, lastPrivateCommand_,
                   haveProcOps_, pOps_, childProcsSent_, cwd, tickPc, pushPc,
                   lastTick, sampleLog, subprocEvents, cwdEvents, lastNotify,
                   created, listening, lastCreate, procOpsMutex_>>

\* privateCommandLoop, lines 475-489: the sample command is written
PclWrite ==
    /\ ctx["driver"].pc = "pcl_write"
    /\ \E error \in BOOLEAN :
        LET r == sendPrivateCommand(ctx["driver"].t, error)
        IN  /\ privateCommandLoop_' = r.inProgress
            /\ lastPrivateCommand_' = r.lastPrivate
            /\ ctx' = IF r.ret
                      THEN [ctx EXCEPT !["driver"] = IdleCtx]
                      ELSE At("driver", "pq_lock", "capture")
    /\ UNCHANGED <<seqVars, lifeVars, chunk, smartTerminal, channelMode,
                   onPrompt_, outputBuffer, sent, classified, handlerCalls,
                   promptEvents, terminateCalls, stdoutCalls, trackEnv,
                   interrupt_, interruptChild_, newSize, haveProcOps_, pOps_,
                   childProcsSent_, cwd, tickPc, pushPc, lastTick, sampleLog,
                   subprocEvents, cwdEvents, lastNotify, created, listening,
                   lastCreate, inputQueueMutex_, procOpsMutex_>>

\* processQueuedInput, line 550
PqLock(c) ==
    /\ ctx[c].pc = "pq_lock"
    /\ inputQueueMutex_ = "free"
    /\ inputQueueMutex_' = lock(inputQueueMutex_, c)
    /\ ctx' = [ctx EXCEPT ![c].pc = "pq_deque"]
    /\ UNCHANGED <<seqVars, lifeVars, promptVars, trackEnv, interrupt_,
                   interruptChild_, newSize, lastPrivateCommand_,
                   haveProcOps_, pOps_, childProcsSent_, cwd, tickPc, pushPc,
                   lastTick, sampleLog, subprocEvents, cwdEvents, lastNotify,
                   created, listening, lastCreate, procOpsMutex_>>

\* processQueuedInput, lines 553-556 and 599-602: dequeInput, then either
\* the loop body or the end of the locked block
PqDeque(c) ==
    /\ ctx[c].pc = "pq_deque"
    /\ LET d == dequeInput(inputQueue_, lastInputSequence_)
       IN  /\ inputQueue_' = d.queue
           /\ lastInputSequence_' = d.last
           /\ IF IsEmpty(d.input)
              THEN /\ inputQueueMutex_' = unlock(inputQueueMutex_)
                   /\ ctx' = [ctx EXCEPT ![c] = [IdleCtx EXCEPT !.pc = ctx[c].ret]]
                   /\ UNCHANGED pendingCommand_
              ELSE /\ pendingCommand_' = TRUE
                   /\ ctx' = [ctx EXCEPT ![c].pc = "pq_io", ![c].cur = d.input]
                   /\ UNCHANGED inputQueueMutex_
    /\ UNCHANGED <<lastEnterTime_, stdinLog, commandAt, clock, nItems,
                   arrived, barrier, autoFlushed, lastDrain, lifeVars,
                   promptVars, trackEnv, interrupt_, interruptChild_,
                   newSize, lastPrivateCommand_, haveProcOps_, pOps_,
                   childProcsSent_, cwd, tickPc, pushPc, lastTick, sampleLog,
                   subprocEvents, cwdEvents, lastNotify, created, listening,
                   lastCreate, procOpsMutex_>>

\* processQueuedInput, lines 559-597: the input in hand goes to the process
PqWrite(c) ==
    /\ ctx[c].pc = "pq_io"
    /\ LET a == applyInput([pending |-> pendingCommand_, enter |-> lastEnterTime_,
                            log |-> stdinLog, out |-> <<>>],
                           ctx[c].cur, PTime(clock))
       IN  /\ pendingCommand_' = a.pending
           /\ lastEnterTime_' = a.enter
           /\ stdinLog' = a.log
    /\ ctx' = [ctx EXCEPT ![c].pc = "pq_deque", ![c].cur = EmptyInput]
    /\ UNCHANGED <<inputQueue_, lastInputSequence_, commandAt, clock, nItems,
                   arrived, barrier, autoFlushed, lastDrain, lifeVars,
                   promptVars, trackEnv, interrupt_, interruptChild_,
                   newSize, lastPrivateCommand_, haveProcOps_, pOps_,
                   childProcsSent_, cwd, tickPc, pushPc, lastTick, sampleLog,
                   subprocEvents, cwdEvents, lastNotify, created, listening,
                   lastCreate, inputQueueMutex_, procOpsMutex_>>

\* onContinue, lines 517-521: whether the operations handle is captured
Capture ==
    /\ ctx["driver"].pc = "capture"
    /\ ctx' = IF channelMode = "Websocket" /\ ~haveProcOps_
              THEN At("driver", "cap_lock", "idle")
              ELSE At("driver", "resize", "idle")
    /\ UNCHANGED <<seqVars, lifeVars, promptVars, trackEnv, interrupt_,
                   interruptChild_, newSize, lastPrivateCommand_,
                   haveProcOps_, pOps_, childProcsSent_, cwd, tickPc, pushPc,
                   lastTick, sampleLog, subprocEvents, cwdEvents, lastNotify,
                   created, listening, lastCreate, inputQueueMutex_,
                   procOpsMutex_>>

\* onContinue, line 523
CapLock ==
    /\ ctx["driver"].pc = "cap_lock"
    /\ procOpsMutex_ = "free"
    /\ procOpsMutex_' = lock(procOpsMutex_, "driver")
    /\ ctx' = At("driver", "cap_set", "idle")
    /\ UNCHANGED <<seqVars, lifeVars, promptVars, trackEnv, interrupt_,
                   interruptChild_, newSize, lastPrivateCommand_,
                   haveProcOps_, pOps_, childProcsSent_, cwd, tickPc, pushPc,
                   lastTick, sampleLog, subprocEvents, cwdEvents, lastNotify,
                   created, listening, lastCreate, inputQueueMutex_>>

\* onContinue, lines 525-528
CapSet ==
    /\ ctx["driver"].pc = "cap_set"
    /\ pOps_' = "ops"
    /\ haveProcOps_' = TRUE
    /\ procOpsMutex_' = unlock(procOpsMutex_)
    /\ ctx' = At("driver", "resize", "idle")
    /\ UNCHANGED <<seqVars, lifeVars, promptVars, trackEnv, interrupt_,
                   interruptChild_, newSize, lastPrivateCommand_,
                   childProcsSent_, cwd, tickPc, pushPc, lastTick, sampleLog,
                   subprocEvents, cwdEvents, lastNotify, created, listening,
                   lastCreate, inputQueueMutex_>>

\* onContinue, lines 532-545: the end of the tick
TickEnd ==
    /\ ctx["driver"].pc = "resize"
    /\ newSize' = applyResize(newSize).pending
    /\ ctx' = [ctx EXCEPT !["driver"] = IdleCtx]
    /\ UNCHANGED <<seqVars, lifeVars, promptVars, trackEnv, interrupt_,
                   interruptChild_, lastPrivateCommand_, haveProcOps_, pOps_,
                   childProcsSent_, cwd, tickPc, pushPc, lastTick, sampleLog,
                   subprocEvents, cwdEvents, lastNotify, created, listening,
                   lastCreate, inputQueueMutex_, procOpsMutex_>>

\* onStdout by the polling driver up to the enqueInput call of line 725,
\* which the prompt handler's answer leads to
StdoutStart ==
    /\ running
    /\ ctx["driver"].pc = "idle"
    /\ stdoutCalls < MaxOutputs
    /\ LET r == onStdout([privateLoop |-> privateCommandLoop_,
                          buffer |-> outputBuffer, sent |-> sent,
                          classified |-> NoClassify,
                          handlerCalls |-> handlerCalls,
                          promptEvents |-> promptEvents,
                          terminates |-> terminateCalls,
                          queue |-> inputQueue_, last |-> lastInputSequence_],
                         [smartTerminal |-> smartTerminal, channel |-> channelMode,
                          handler |-> onPrompt_],
                         chunk)
       IN  /\ privateCommandLoop_' = r.privateLoop
           /\ outputBuffer' = r.buffer
           /\ sent' = r.sent
           /\ classified' = r.classified
           /\ handlerCalls' = r.handlerCalls
           /\ promptEvents' = r.promptEvents
           /\ terminateCalls' = r.terminates
           /\ ctx' = IF r.queue # inputQueue_
                     THEN [ctx EXCEPT !["driver"] =
                              [IdleCtx EXCEPT !.pc = "enq_lock",
                                              !.cur = onPrompt_.input]]
                     ELSE ctx
    /\ stdoutCalls' = stdoutCalls + 1
    /\ UNCHANGED <<seqVars, lifeVars, chunk, smartTerminal, channelMode,
                   onPrompt_, trackEnv, interrupt_, interruptChild_, newSize,
                   lastPrivateCommand_, haveProcOps_, pOps_, childProcsSent_,
                   cwd, tickPc, pushPc, lastTick, sampleLog, subprocEvents,
                   cwdEvents, lastNotify, created, listening, lastCreate,
                   inputQueueMutex_, procOpsMutex_>>

\* enqueInput, line 312
EnqLock(c) ==
    /\ ctx[c].pc = "enq_lock"
    /\ inputQueueMutex_ = "free"
    /\ inputQueueMutex_' = lock(inputQueueMutex_, c)
    /\ ctx' = [ctx EXCEPT ![c].pc = "enq_do"]
    /\ UNCHANGED <<seqVars, lifeVars, promptVars, trackEnv, interrupt_,
                   interruptChild_, newSize, lastPrivateCommand_,
                   haveProcOps_, pOps_, childProcsSent_, cwd, tickPc, pushPc,
                   lastTick, sampleLog, subprocEvents, cwdEvents, lastNotify,
                   created, listening, lastCreate, procOpsMutex_>>

\* enqueInput, lines 314-347
EnqDo(c) ==
    /\ ctx[c].pc = "enq_do"
    /\ LET r == enqueInput(inputQueue_, lastInputSequence_, ctx[c].cur)
       IN  /\ inputQueue_' = r.queue
           /\ lastInputSequence_' = r.last
    /\ inputQueueMutex_' = unlock(inputQueueMutex_)
    /\ ctx' = [ctx EXCEPT ![c] = [IdleCtx EXCEPT !.pc = ctx[c].ret]]
    /\ UNCHANGED <<pendingCommand_, lastEnterTime_, stdinLog, commandAt,
                   clock, nItems, arrived, barrier, autoFlushed, lastDrain,
                   lifeVars, promptVars, trackEnv, interrupt_,
                   interruptChild_, newSize, lastPrivateCommand_,
                   haveProcOps_, pOps_, childProcsSent_, cwd, tickPc, pushPc,
                   lastTick, sampleLog, subprocEvents, cwdEvents, lastNotify,
                   created, listening, lastCreate, procOpsMutex_>>

\* what a push-channel client sends: an Enter on its own, while the prompt
\* handler answers with text that does not end the line
PushTexts == {<<CR>>}

\* onReceivedInput(input) begins on push thread p, line 1002
PushStart(p) ==
    /\ listening
    /\ ctx[p].pc = "idle"
    /\ pushPc.n < MaxSessInputs
    /\ \E text \in PushTexts :
        ctx' = [ctx EXCEPT ![p] =
                   [IdleCtx EXCEPT !.pc = "enq_lock", !.ret = "ops_lock",
                                   !.cur = Input(kIgnoreSequence, text, TRUE)]]
    /\ pushPc' = [pushPc EXCEPT !.n = @ + 1]
    /\ UNCHANGED <<seqVars, lifeVars, promptVars, trackEnv, interrupt_,
                   interruptChild_, newSize, lastPrivateCommand_,
                   haveProcOps_, pOps_, childProcsSent_, cwd, tickPc,
                   lastTick, sampleLog, subprocEvents, cwdEvents, lastNotify,
                   created, listening, lastCreate, inputQueueMutex_,
                   procOpsMutex_>>

\* onReceivedInput, line 1003
OpsLock(p) ==
    /\ ctx[p].pc = "ops_lock"
    /\ procOpsMutex_ = "free"
    /\ procOpsMutex_' = lock(procOpsMutex_, p)
    /\ ctx' = [ctx EXCEPT ![p].pc = "ops_test"]
    /\ UNCHANGED <<seqVars, lifeVars, promptVars, trackEnv, interrupt_,
                   interruptChild_, newSize, lastPrivateCommand_,
                   haveProcOps_, pOps_, childProcsSent_, cwd, tickPc, pushPc,
                   lastTick, sampleLog, subprocEvents, cwdEvents, lastNotify,
                   created, listening, lastCreate, inputQueueMutex_>>

\* onReceivedInput, lines 1005-1009
OpsTest(p) ==
    /\ ctx[p].pc = "ops_test"
    /\ ctx' = IF mayDrainNow(OpsResolves, privateCommandLoop_)
              THEN At(p, "pq_lock", "ops_unlock")
              ELSE At(p, "ops_unlock", "idle")
    /\ UNCHANGED <<seqVars, lifeVars, promptVars, trackEnv, interrupt_,
                   interruptChild_, newSize, lastPrivateCommand_,
                   haveProcOps_, pOps_, childProcsSent_, cwd, tickPc, pushPc,
                   lastTick, sampleLog, subprocEvents, cwdEvents, lastNotify,
                   created, listening, lastCreate, inputQueueMutex_,
                   procOpsMutex_>>

\* onReceivedInput, line 1012
OpsUnlock(p) ==
    /\ ctx[p].pc = "ops_unlock"
    /\ procOpsMutex_' = unlock(procOpsMutex_)
    /\ ctx' = [ctx EXCEPT ![p] = IdleCtx]
    /\ UNCHANGED <<seqVars, lifeVars, promptVars, trackEnv, interrupt_,
                   interruptChild_, newSize, lastPrivateCommand_,
                   haveProcOps_, pOps_, childProcsSent_, cwd, tickPc, pushPc,
                   lastTick, sampleLog, subprocEvents, cwdEvents, lastNotify,
                   created, listening, lastCreate, inputQueueMutex_>>

\* now() moves on between callbacks: a clock step is kWaitForCommandDelay,
\* far longer than a callback runs
AdvanceBetweenCallbacks ==
    /\ \A c \in Contexts : ctx[c].pc = "idle"
    /\ Advance

(* SpecLocks: a started terminal session on the push channel that tracks   *)
(* its environment and has a prompt handler answering with input: the      *)
(* ticks and onStdout calls of the polling driver and the onReceivedInput  *)
(* calls of two push threads, step by step, while time passes.             *)
InitLocks ==
    /\ SeqInit
    /\ nItems = 0
    /\ mode = "terminal"
    /\ Launched
    /\ hasChildProcs = FALSE
    /\ PromptInit
    /\ chunk = <<"a", LF, "a", "$", SP>>
    /\ smartTerminal = FALSE
    /\ channelMode = "Websocket"
    /\ onPrompt_ = [set |-> TRUE, handled |-> TRUE,
                    input |-> Input(kIgnoreSequence, <<"a">>, TRUE)]
    /\ RunInit
    /\ trackEnv = TRUE
    /\ cwd = "home"
    /\ created = TRUE
    /\ listening = TRUE
    /\ lastCreate = NoCreate

NextLocks ==
    \/ TickStart
    \/ PclLock
    \/ PclTest
    \/ PclWrite
    \/ \E c \in Contexts : PqLock(c)
    \/ \E c \in Contexts : PqDeque(c)
    \/ \E c \in Contexts : PqWrite(c)
    \/ Capture
    \/ CapLock
    \/ CapSet
    \/ TickEnd
    \/ StdoutStart
    \/ \E c \in Contexts : EnqLock(c)
    \/ \E c \in Contexts : EnqDo(c)
    \/ \E p \in PushThreads : PushStart(p)
    \/ \E p \in PushThreads : OpsLock(p)
    \/ \E p \in PushThreads : OpsTest(p)
    \/ \E p \in PushThreads : OpsUnlock(p)
    \/ AdvanceBetweenCallbacks

SpecLocks == InitLocks /\ [][NextLocks]_vars

----------------------------------------------------------------------------
(* Properties of the private sampling protocol                             *)

\* a step on which a tick passes the tests of lines 431-473
InjectDecided == tickPc = Idle /\ tickPc'.at = "inject"

\* a step on which the sample command is given to writeToStdin
InjectWritten == Len(sampleLog') = Len(sampleLog) + 1

\* the stdin writes that submitted a command: texts ending in Enter
Commands ==
    {i \in 1..Len(stdinLog) :
        stdinLog[i].kind = "writeToStdin" /\ EndsWithCR(stdinLog[i].text)}

\* the latest write to stdin submitted a command
NoCommandPending == Commands # {} /\ Max(Commands) = Len(stdinLog)

SampleFailed == \E i \in 1..Len(sampleLog) : sampleLog[i].error

\* C12: the tick whose sample write fails clears privateCommandLoop_, sets
\* lastPrivateCommand_ to pos_infin, processes the queued input and returns
\* continue; after a failed write no tick decides to inject again.
C12_FailedSampleDisables ==
    [][/\ (InjectWritten /\ sampleLog'[Len(sampleLog')].error) =>
            /\ ~privateCommandLoop_'
            /\ lastPrivateCommand_' = PosInfin
            /\ lastTick'.ret = "continue"
            /\ lastDrain'.called
            /\ IsEmpty(dequeInput(inputQueue_', lastInputSequence_').input)
       /\ SampleFailed => ~InjectDecided]_vars

\* a tick has run, after a failed sample, in a state where a sample would
\* be due had the failed write left the time of the attempt in place
C12_Witness ==
    /\ Len(sampleLog) = 1
    /\ sampleLog[1].error
    /\ tickPc = Idle
    /\ lastTick.ret = "continue"
    /\ lastTick.calls = <<"getPid">>
    /\ privateCommandLoop(trackEnv, hasChildProcs, privateCommandLoop_,
                          pendingCommand_, lastEnterTime_,
                          PTime(sampleLog[1].at), PTime(clock)) = "inject"

\* C19: the sample command is written only while privateCommandLoop_ is
\* clear, and the write sets the flag unless it fails; the flag is set by
\* nothing else and cleared only by a step that enqueues an output event;
\* between two sample writes the earlier write failed or an output event
\* was enqueued.
C19_OneSampleInFlight ==
    [][/\ InjectWritten =>
            /\ ~privateCommandLoop_
            /\ privateCommandLoop_' <=> ~sampleLog'[Len(sampleLog')].error
            /\ sampleLog # <<>> =>
                  \/ sampleLog[Len(sampleLog)].error
                  \/ Len(sent) > sampleLog[Len(sampleLog)].outputs
       /\ ~privateCommandLoop_ /\ privateCommandLoop_' => InjectWritten
       /\ privateCommandLoop_ /\ ~privateCommandLoop_' =>
            Len(sent') > Len(sent)]_vars

\* two samples were written, the second after the output event that ended
\* the first, and the second is in flight
C19_Witness ==
    /\ Len(sampleLog) = 2
    /\ ~sampleLog[1].error
    /\ sampleLog[2].outputs > sampleLog[1].outputs
    /\ privateCommandLoop_

\* C18 as stated: while privateCommandLoop_ is set, no step of a tick or of
\* onReceivedInput writes queued user input to stdin.
C18_NoInputDuringSample ==
    [][Len(stdinLog') > Len(stdinLog) => ~privateCommandLoop_]_vars

\* C25 as stated: the sample command is written to stdin only when the
\* latest user text written to stdin ended in a line terminator, under
\* every interleaving of the tick with onReceivedInput.
C25_NoSampleInPartialCommand ==
    [][InjectWritten => stdinLog = <<>> \/ NoCommandPending]_vars

----------------------------------------------------------------------------
(* Properties of the tick                                                  *)

\* a step of onContinue that changes what the latest tick is known by
TickStep == lastTick' # lastTick

\* C20: a tick returns stop exactly when interrupt_ was set, and then it
\* makes no ops call and leaves the queue, the child-interrupt flag and the
\* pending resize alone; a tick that was not stopped returns continue
\* whether or not ptyInterrupt or a stdin write failed; when
\* interruptChild_ was set such a tick calls ptyInterrupt first and clears
\* the flag.
C20_TickStops ==
    [][TickStep =>
        /\ lastTick'.ret = "stop" <=> lastTick'.stopAsked
        /\ tickPc = Idle => lastTick'.stopAsked = interrupt_
        /\ lastTick'.ret = "stop" =>
              /\ lastTick'.calls = <<>>
              /\ UNCHANGED <<stdinLog, sampleLog, inputQueue_, interruptChild_,
                             newSize>>
        /\ lastTick'.ret # "stop" /\ tickPc' = Idle =>
              lastTick'.ret = "continue"
        /\ lastTick'.ret # "stop" /\ tickPc = Idle =>
              /\ ~interruptChild_'
              /\ lastTick'.childAsked = interruptChild_
              /\ interruptChild_ => lastTick'.calls[1] = "ptyInterrupt"]_vars

\* a tick sent the child interrupt, the call failed, and the tick went on
\* to resize the terminal and returned continue
C20_Witness ==
    /\ lastTick.ret = "continue"
    /\ lastTick.childAsked
    /\ lastTick.failed
    /\ lastTick.calls = <<"ptyInterrupt", "ptySetSize", "getPid">>
    /\ ~interruptChild_

\* the ops calls of the latest tick, as a set
CallsOf(tick) == {tick.calls[i] : i \in 1..Len(tick.calls)}

\* the tick ran to the end of onContinue, line 545
RanToEnd(tick) == tick.ret = "continue" /\ "getPid" \in CallsOf(tick)

----------------------------------------------------------------------------
(* Properties of the push-channel input                                    *)

\* a step of onReceivedInput up to the test of line 1008
PushStep == pushPc'.n = pushPc.n + 1

\* the step of onReceivedInput that runs line 1009
DrainStep == pushPc.at = "drain" /\ pushPc'.at = "idle"

\* the writeToStdin call of line 598 for one queued text
StdinWrite(input) ==
    [kind |-> "writeToStdin", text |-> input.text, orig |-> input.orig]

\* the queued inputs as writeToStdin calls
AsWrites(q) == [i \in 1..Len(q) |-> StdinWrite(q[i])]

\* C17: onReceivedInput always enqueues its input and writes nothing
\* before the test of line 1008; it goes on to processQueuedInput exactly
\* when pOps_ was captured, the process runs and no sample is in progress,
\* and that call writes the whole queue to stdin; once the process has
\* exited no callback that arrives writes to stdin, and the queued items
\* are never written.
C17_PushInput ==
    [][/\ PushStep =>
            /\ \E text \in SessTexts :
                  inputQueue_' = Append(inputQueue_,
                                        Input(kIgnoreSequence, text, TRUE))
            /\ stdinLog' = stdinLog
            /\ pushPc'.at = "drain" <=>
                  (pOps_ = "ops" /\ running /\ ~privateCommandLoop_)
       /\ DrainStep =>
            /\ inputQueue_' = <<>>
            /\ stdinLog' = stdinLog \o AsWrites(inputQueue_)
       /\ ~running /\ pushPc.at = "idle" =>
            stdinLog' = stdinLog]_vars

\* one input was written by its own callback; the process exited and the
\* input that arrived afterwards stays queued
C17_Witness ==
    /\ ~running
    /\ pushPc = [at |-> "idle", n |-> 2, wrote |-> 1]
    /\ Len(inputQueue_) = 1
    /\ Len(stdinLog) = 1

----------------------------------------------------------------------------
(* Properties of the notifications                                         *)

\* C13 as stated: onHasSubprocs(v) emits a subprocs notification exactly
\* when v differs from the stored child-process flag or no subprocs
\* notification has been sent for the session yet; in particular the first
\* onHasSubprocs call of a session emits.
C13_EmitsOnChangeOrFirst ==
    lastNotify.op = "onHasSubprocs" =>
        (lastNotify.emitted <=>
            (lastNotify.arg # lastNotify.storedBefore \/ ~lastNotify.sentBefore))

\* a step of onExit: the process stops running
ExitStep == running /\ ~running'

\* C14: onExit(code) records code as the exit code, clears the
\* child-process flag, emits one exit event with code and calls the
\* completion callback once with code.
C14_ExitRecorded ==
    [][ExitStep =>
        \E code \in ExitCodes :
            /\ exitCode' = <<code>>
            /\ ~hasChildProcs'
            /\ exitEvents' = Append(exitEvents, code)
            /\ onExitCalls' = Append(onExitCalls, code)]_vars

\* onExit(7) found the child-process flag set, after notifications
C14_Witness ==
    /\ exitCode = <<7>>
    /\ exitEvents = <<7>>
    /\ onExitCalls = <<7>>
    /\ ~hasChildProcs
    /\ subprocEvents # <<>>
    /\ subprocEvents[Len(subprocEvents)] = TRUE
    /\ ~zombie

----------------------------------------------------------------------------
(* Properties of the channel selection                                     *)

\* a step of createTerminalProcess
CreateStep == lastCreate'.n = lastCreate.n + 1

\* the call found push delivery permitted and the push server running
PushGranted == lastCreate.enableWebsockets /\ ~lastCreate.serverError

\* C15 as stated: after createTerminalProcess the channel mode of the
\* session it returns is push only if push delivery was permitted and
\* ensureServerRunning succeeded; otherwise the mode is poll and no push
\* listener is registered for the handle.
C15_PushOnlyWhenGranted ==
    [][CreateStep =>
        /\ (channelMode' = "Websocket" => PushGranted')
        /\ (~PushGranted' => channelMode' = "Rpc" /\ ~listening')]_vars

\* C16 as stated: once the channel mode of a started, running session is
\* poll, no step changes it back to push while the session runs.
C16_NeverBackToPush ==
    [][started_ /\ running /\ channelMode = "Rpc" /\ running' =>
        channelMode' = "Rpc"]_vars

----------------------------------------------------------------------------
(* Properties of the sequencer                                             *)

Numbered(seq) == seq # kIgnoreSequence /\ seq # kFlushSequence

\* the submitted numbers of the sequence-numbered texts written to stdin
RECURSIVE WrittenNumbers(_)
WrittenNumbers(log) ==
    IF log = <<>> THEN <<>>
    ELSE IF Head(log).kind = "writeToStdin" /\ Numbered(Head(log).orig)
         THEN <<Head(log).orig>> \o WrittenNumbers(Tail(log))
         ELSE WrittenNumbers(Tail(log))

NonDecreasing(ns) == \A i \in 1..Len(ns) - 1 : ns[i] <= ns[i + 1]

\* the sequence numbers of the queued items that still carry one
IsNumbered(input) == Numbered(input.sequence)

QueuedNumbers == Origs(SelectSeq(inputQueue_, IsNumbered))

\* C23 as stated: the queued items that still carry a sequence number are
\* in strictly increasing sequence order from head to tail.
C23_StrictlyIncreasing ==
    \A i \in 1..Len(QueuedNumbers) - 1 : QueuedNumbers[i] < QueuedNumbers[i + 1]

\* C23, with repeated numbers: the queued items that still carry a
\* sequence number are in non-decreasing sequence order from head to tail,
\* an item enqueued with a number already queued going behind its equals.
C23_QueueNonDecreasing ==
    /\ NonDecreasing(QueuedNumbers)
    /\ \A i \in 1..Len(inputQueue_) :
          IsNumbered(inputQueue_[i]) =>
              inputQueue_[i].sequence = inputQueue_[i].orig

\* a number was enqueued twice, around an Unordered item and a larger number
C23_Witness ==
    /\ Len(inputQueue_) = 4
    /\ QueuedNumbers = <<2, 2, 3>>
    /\ inputQueue_[2].sequence = kIgnoreSequence

\* a step on which dequeInput degrades for the first time
FirstDegrade == ~autoFlushed /\ autoFlushed'

\* C24 as stated: when dequeInput degrades, lastInputSequence_ becomes the
\* highest sequence number queued at that moment, whether or not Unordered
\* items are queued behind the numbered ones, and the backlog is written.
C24_FlushKeepsHighest ==
    [][FirstDegrade =>
        /\ lastInputSequence_' = Max({n \in 1..MaxSeq :
                \E i \in 1..Len(QueuedNumbers) : QueuedNumbers[i] = n})
        /\ inputQueue_' = <<>>]_vars

\* how many of 1, 2, ... have arrived without a gap
ReadyCount == Max({k \in 0..MaxN : \A i \in 1..k : i \in arrived})

\* the dequeued items are 1, 2, ..., k in order, each once, and after a
\* processQueuedInput call every item with no gap before it was dequeued
InOrderExactlyOnce ==
    /\ Origs(stdinLog) = [i \in 1..Len(stdinLog) |-> i]
    /\ lastDrain.called => Len(stdinLog) = ReadyCount

\* C1 as stated: items 1..N enqueued in any arrival order, with dequeues
\* interleaved anywhere, are dequeued as 1, 2, ..., N, each exactly once.
C1_AnyN == InOrderExactlyOnce

\* C1 (amended): with N no larger than the auto-flush threshold, items 1..N
\* enqueued in any arrival order are dequeued as 1, 2, ..., N, each exactly
\* once; with more items a gap that outlasts kAutoFlushLength arrivals
\* degrades the queue and the backlog is returned before the missing item.
C1_InOrderUpToThreshold == nItems <= kAutoFlushLength => InOrderExactlyOnce

\* N = threshold items were all dequeued in order, by at least two calls
C1_Witness ==
    /\ nItems = kAutoFlushLength
    /\ lastDrain.called
    /\ lastDrain.preLast >= 1
    /\ Len(lastDrain.out) >= 2
    /\ Origs(stdinLog) = [i \in 1..nItems |-> i]

\* C2 as stated: over any enqueue and dequeue operations the
\* sequence-numbered items written to stdin are in non-decreasing order of
\* their submitted sequence numbers.
C2_NeverReordered == NonDecreasing(WrittenNumbers(stdinLog))

FlushHappened == autoFlushed \/ kFlushSequence \in arrived

\* C2 (amended): until the first flush (a FlushBarrier is enqueued or
\* dequeInput degrades at the threshold) the sequence-numbered items written
\* to stdin are in non-decreasing order of their submitted numbers; after a
\* flush a late lower number is written after higher ones.
C2_OrderedUntilFlush == ~FlushHappened => NonDecreasing(WrittenNumbers(stdinLog))

\* two numbered items were written while another still waits behind a gap
C2_Witness ==
    /\ ~FlushHappened
    /\ Len(WrittenNumbers(stdinLog)) >= 2
    /\ lastDrain.called
    /\ inputQueue_ # <<>>
    /\ Numbered(Head(inputQueue_).sequence)

BlockedHead(q, last) ==
    q # <<>> /\ Numbered(q[1].sequence) /\ q[1].sequence # last + 1

\* C3: when the item numbered lastInputSequence_ + 1 is missing and the queue
\* has grown to kAutoFlushLength items, the next dequeInput returns a
\* non-empty item.
C3_GapNeverStalls ==
    (/\ lastDrain.called
     /\ BlockedHead(lastDrain.pre, lastDrain.preLast)
     /\ Len(lastDrain.pre) >= kAutoFlushLength)
    => /\ lastDrain.out # <<>>
       /\ ~IsEmpty(lastDrain.out[1])
       /\ lastDrain.out[1].orig = lastDrain.pre[1].orig

\* item 1 was delivered, 2 never came, kAutoFlushLength later items did
C3_Witness ==
    /\ lastDrain.called
    /\ lastDrain.preLast = 1
    /\ 2 \notin arrived
    /\ Len(lastDrain.pre) = kAutoFlushLength
    /\ \A i \in 1..Len(lastDrain.pre) : lastDrain.pre[i].sequence > 2
    /\ lastDrain.out # <<>>

\* C4: once a FlushBarrier is enqueued, the items then queued are dequeued in
\* their queued order, whatever their numbers and gaps, then the barrier, and
\* no dequeInput before that returns empty.
C4_BarrierDrainsBacklog ==
    (lastDrain.called /\ lastDrain.barrier # <<>>)
    => /\ Len(lastDrain.out) >= Len(lastDrain.barrier)
       /\ SubSeq(Origs(lastDrain.out), 1, Len(lastDrain.barrier)) = lastDrain.barrier
       /\ lastDrain.out[Len(lastDrain.barrier)].orig = kFlushSequence

\* a backlog shorter than the threshold, blocked on a gap, drained by a barrier
C4_Witness ==
    /\ lastDrain.called
    /\ Len(lastDrain.barrier) >= 2
    /\ Len(lastDrain.pre) < kAutoFlushLength
    /\ Numbered(lastDrain.barrier[1])
    /\ lastDrain.barrier[1] > 1
    /\ 1 \notin arrived
    /\ Len(lastDrain.out) = Len(lastDrain.pre)

\* C5 as stated: an item enqueued as Unordered is returned by dequeInput
\* without waiting for a gap to be filled, also when blocked numbered items
\* are queued already: no processQueuedInput call leaves one in the queue.
C5_UnorderedNeverWaits ==
    lastDrain.called =>
        \A i \in 1..Len(inputQueue_) : inputQueue_[i].orig # kIgnoreSequence

\* the leading items of q that carry the Unordered sentinel
RECURSIVE LeadingUnordered(_)
LeadingUnordered(q) ==
    IF q = <<>> \/ Head(q).sequence # kIgnoreSequence THEN <<>>
    ELSE <<Head(q)>> \o LeadingUnordered(Tail(q))

\* C5 (amended): an Unordered item is appended at the tail and is returned by
\* dequeInput as soon as it is at the head, whatever lastInputSequence_ is;
\* behind a numbered item that is blocked on a gap it waits with it.
C5_UnorderedAtHeadReturned ==
    lastDrain.called =>
        LET lead == LeadingUnordered(lastDrain.pre)
        IN  /\ Len(lastDrain.out) >= Len(lead)
            /\ SubSeq(lastDrain.out, 1, Len(lead)) = lead

\* an Unordered item at the head was returned although a gap is open
C5_Witness ==
    /\ lastDrain.called
    /\ Len(lastDrain.pre) >= 2
    /\ lastDrain.pre[1].orig = kIgnoreSequence
    /\ Len(lastDrain.out) = 1
    /\ lastDrain.out[1] = lastDrain.pre[1]
    /\ BlockedHead(inputQueue_, lastInputSequence_)

----------------------------------------------------------------------------
(* Properties of start()                                                   *)

SuccessfulLaunches == {i \in 1..Len(launches) : launches[i].error = Success}

\* C6: start() on a started or zombie session returns success without calling
\* the supervisor, and over all start() calls of a session, also after the
\* process has exited, the supervisor's launch succeeds at most once.
C6_StartIdempotent ==
    /\ \A i \in 1..Len(startLog) :
          (startLog[i].startedBefore \/ startLog[i].zombieBefore)
          => (startLog[i].ret = Success /\ ~startLog[i].launched)
    /\ Cardinality(SuccessfulLaunches) <= 1

\* start() again after the launched process has exited: success, no launch
C6_Witness ==
    /\ Len(startLog) >= 2
    /\ startLog[1].launched /\ startLog[1].ret = Success
    /\ exitCode # NoExitCode
    /\ ~running
    /\ ~zombie
    /\ startLog[Len(startLog)].ret = Success
    /\ ~startLog[Len(startLog)].launched
    /\ Len(launches) = 1

\* every start() call that reached the supervisor returned the supervisor's
\* error, and started_ is true only after a launch that returned success
ErrorReturnedUnchanged ==
    /\ \A i \in 1..Len(startLog) :
          startLog[i].launched
          => startLog[i].ret = launches[startLog[i].nLaunches].error
    /\ started_ <=> SuccessfulLaunches # {}

\* C7 as stated: a launch error is returned unchanged, the session stays
\* un-started, and a later start() attempts the launch again.
C7_FailedLaunchRetried ==
    /\ ErrorReturnedUnchanged
    /\ \A i \in 2..Len(startLog) :
          (startLog[i - 1].launched /\ startLog[i - 1].ret # Success)
          => startLog[i].launched

\* C7 (amended): a launch error is returned unchanged and the session stays
\* un-started, so a later start() attempts the launch again, unless the
\* session has been made a zombie in between (start() then returns success
\* without launching).
C7_FailedLaunchRetriedUnlessZombie ==
    /\ ErrorReturnedUnchanged
    /\ \A i \in 2..Len(startLog) :
          (startLog[i - 1].launched /\ startLog[i - 1].ret # Success)
          => (startLog[i].launched <=> ~startLog[i].zombieBefore)

\* a failed launch, start() returned its error, and the next start() launched
C7_Witness ==
    /\ Len(startLog) >= 2
    /\ startLog[1].launched /\ startLog[1].ret = "LaunchError2"
    /\ startLog[2].launched /\ startLog[2].ret = Success
    /\ launches[1].error = "LaunchError2"
    /\ started_

----------------------------------------------------------------------------
(* Properties of the prompt classifier                                     *)

\* C8: a candidate containing a carriage return or a backspace is not a
\* prompt, whether or not it has the prompt shape: the handler is not called,
\* no prompt event is emitted, the process is not terminated, and the
\* candidate is flushed as output.
C8_ControlCharNotPrompt ==
    (classified.called /\ HasControlChar(classified.candidate))
    => /\ handlerCalls = <<>>
       /\ promptEvents = <<>>
       /\ terminateCalls = 0
       /\ inputQueue_ = <<>>
       /\ classified.flushes >= 1

\* C9: a candidate that is not a prompt (it contains a control character or
\* lacks the prompt shape) is flushed as output exactly once.
C9_FlushedExactlyOnce ==
    (/\ classified.called
     /\ (HasControlChar(classified.candidate)
            \/ ~MatchesPromptPattern(classified.candidate)))
    => classified.flushes = 1

IsCleanPrompt(text) == ~HasControlChar(text) /\ MatchesPromptPattern(text)

FlushedByOnStdout ==
    IF Len(outputBuffer) > classified.flushes THEN outputBuffer[1] ELSE <<>>

\* the remainder onStdout handed to maybeConsolePrompt (lines 686, 690)
HandedToClassifier ==
    IF classified.called THEN classified.candidate ELSE <<>>

\* C27 as stated: for a non-smart session the text onStdout flushes as
\* output followed by the remainder it hands to the prompt classifier is
\* the chunk with its line endings normalized.
C27_NoCharacterLost ==
    stdoutCalls = 1 /\ ~smartTerminal =>
        FlushedByOnStdout \o HandedToClassifier = convertLineEndings(chunk)

----------------------------------------------------------------------------
(* Properties of the mutexes                                               *)

\* context c takes a step
Stepping(c) == ctx'[c] # ctx[c]

\* context c takes the step that starts at place pc
Doing(c, pc) == ctx[c].pc = pc /\ Stepping(c)

\* processQueuedInput hands the input in hand to writeToStdin or
\* ptyInterrupt, lines 561 and 586
QueuedInputIO(c) == Doing(c, "pq_io")

\* privateCommandLoop writes the sample command, line 479
SampleIO(c) == Doing(c, "pcl_write")

\* the steps that read the queue, the counter, the pending flag or the
\* sampling timestamps: lines 447-466, dequeInput and enqueInput
ReadsSynchronized(c) ==
    Doing(c, "pcl_test") \/ Doing(c, "pq_deque") \/ Doing(c, "enq_do")

\* the step of c changes the queue, the counter, the pending flag or
\* lastEnterTime_
WritesQueueState(c) ==
    /\ Stepping(c)
    /\ <<inputQueue_, lastInputSequence_, pendingCommand_, lastEnterTime_>>' #
       <<inputQueue_, lastInputSequence_, pendingCommand_, lastEnterTime_>>

\* the step of c changes lastPrivateCommand_
WritesSampleTime(c) ==
    Stepping(c) /\ lastPrivateCommand_' # lastPrivateCommand_

\* C22, as stated: no context holds inputQueueMutex_ while it makes a
\* writeToStdin or ptyInterrupt call, and every read or write of the queue,
\* the counter, the pending flag and the sampling timestamps is made by a
\* context that holds inputQueueMutex_.
C22_LockNeverAcrossIO ==
    [][\A c \in Contexts :
        /\ QueuedInputIO(c) \/ SampleIO(c) => inputQueueMutex_ # c
        /\ ReadsSynchronized(c) \/ WritesQueueState(c) \/ WritesSampleTime(c)
               => inputQueueMutex_ = c]_vars

\* C22, amended: processQueuedInput holds inputQueueMutex_ across its whole
\* loop, the writeToStdin and ptyInterrupt calls for queued input included;
\* only the sample command is written with no lock held.  Every read or
\* write of the queue, the counter, the pending flag and lastEnterTime_ is
\* made under the lock; lastPrivateCommand_ is read under the lock and
\* written without it, by the polling driver's thread only.
C22_LockHeldAcrossDrain ==
    [][\A c \in Contexts :
        /\ QueuedInputIO(c) => inputQueueMutex_ = c
        /\ SampleIO(c) => c = "driver" /\ LocksOf(c) = {}
        /\ ReadsSynchronized(c) \/ WritesQueueState(c) => inputQueueMutex_ = c
        /\ WritesSampleTime(c) => SampleIO(c)]_vars

\* a push thread has written queued input to the process and still holds
\* both mutexes, after the driver wrote a sample with lastPrivateCommand_
C22_Witness ==
    \E p \in PushThreads :
        /\ ctx[p].pc = "pq_deque"
        /\ LocksOf(p) = {"inputQueueMutex_", "procOpsMutex_"}
        /\ stdinLog # <<>>
        /\ stdinLog[Len(stdinLog)].kind = "writeToStdin"
        /\ lastPrivateCommand_ # NotADateTime

\* the mutex context c is about to take
WantsLock(c) ==
    IF ctx[c].pc \in {"enq_lock", "pcl_lock", "pq_lock"} THEN "inputQueueMutex_"
    ELSE IF ctx[c].pc \in {"ops_lock", "cap_lock"} THEN "procOpsMutex_"
    ELSE "none"

OwnerOf(m) == IF m = "inputQueueMutex_" THEN inputQueueMutex_ ELSE procOpsMutex_

\* context c waits for a mutex another context holds, or holds itself
Blocked(c) == WantsLock(c) # "none" /\ OwnerOf(WantsLock(c)) # "free"

\* following, from context c, the owners of the mutexes waited for leads
\* within n steps to a context that is not blocked
RECURSIVE ReachesRunnable(_, _)
ReachesRunnable(c, n) ==
    IF ~Blocked(c) THEN TRUE
    ELSE IF n = 0 THEN FALSE
    ELSE ReachesRunnable(OwnerOf(WantsLock(c)), n - 1)

\* C26: in every interleaving of the driver's ticks and onStdout calls with
\* the push threads' onReceivedInput calls, some context is not blocked, no
\* contexts wait for each other's mutexes in a cycle, procOpsMutex_ is never
\* taken while inputQueueMutex_ is held, and a context that has ended its
\* callback holds no mutex.
C26_NoLockOrderConflict ==
    /\ \E c \in Contexts : ~Blocked(c)
    /\ \A c \in Contexts : ReachesRunnable(c, Cardinality(Contexts))
    /\ \A c \in Contexts :
        WantsLock(c) = "procOpsMutex_" => "inputQueueMutex_" \notin LocksOf(c)
    /\ \A c \in Contexts : ctx[c].pc = "idle" => LocksOf(c) = {}

\* one push thread holds both mutexes inside processQueuedInput while the
\* driver waits for inputQueueMutex_ and the other push thread waits for
\* procOpsMutex_
C26_Witness ==
    \E p, q \in PushThreads :
        /\ p # q
        /\ LocksOf(p) = {"inputQueueMutex_", "procOpsMutex_"}
        /\ ctx[p].pc = "pq_io"
        /\ Blocked("driver") /\ WantsLock("driver") = "inputQueueMutex_"
        /\ Blocked(q) /\ WantsLock(q) = "procOpsMutex_"

====
